---- MODULE Spec2Model ----
(***************************************************************************)
(* Verification model of the checkers protocol server:                     *)
(*   src/internal_types/types.py   Board, Move, BoardLocation               *)
(*   src/server/game.py            Game (turn order, forced captures)       *)
(*   src/server/queue.py           UserQueue (matchmaking)                  *)
(*   src/server/user_session.py    Session (server side of the protocol)    *)
(*   src/assignment/src/server/db.py  DictionaryDB (the store __main__ uses)*)
(*                                                                         *)
(* The server is single threaded: every callback (data read, end of file,  *)
(* matchmaking timer) runs to completion, so one action models one whole   *)
(* callback, nested calls and callbacks into other sessions included.      *)
(* An exception that leaves a callback keeps the assignments made before   *)
(* it was raised; the event loop then goes on with the next callback.      *)
(***************************************************************************)
EXTENDS Integers, Sequences, FiniteSets, TLC

\* ------------------------------------------------------------------ bounds
NConn == 3          \* sessions (accepted connections) that exist
MaxGames == 2       \* Game objects created in one behaviour
MaxMoves == 2       \* MakeMove messages the engine accepts in one behaviour
MaxLogins == 1      \* Connect messages the store accepts in one behaviour

\* ------------------------------------------------------- program constants
Negative == 0                 \* Direction.Negative
Positive == 1                 \* Direction.Positive
supported_versions == {1}     \* Session.supported_versions
InitialSmallestDiff == 100000000   \* smallest_diff in pop_closest_pair

UNAUTHENTICATED == "UNAUTHENTICATED"
IN_QUEUE == "IN_QUEUE"
PROCESSING_GAME_STATE == "PROCESSING_GAME_STATE"
USER_MOVE == "USER_MOVE"
GAME_END == "GAME_END"
ProtocolState == {UNAUTHENTICATED, IN_QUEUE, PROCESSING_GAME_STATE, USER_MOVE, GAME_END}

\* Python's None, per type of the field that holds it
None == "None"        \* Session.__username
NoRating == -1        \* Session.__rating  (ratings of the program are >= 0)
NoGame == 0           \* Session.__game    (games are numbered from 1)

Conn == 1..NConn

\* ------------------------------------------------------------- Move, Board
to_one(d) == IF d = Positive THEN 1 ELSE -1

Move(x, y, xd, yd) == [x_pos |-> x, y_pos |-> y, x_direction |-> xd, y_direction |-> yd]
NoMove == Move(-1, -1, Negative, Negative)     \* Python None where a Move is expected
AllMoves == {Move(x, y, xd, yd) : x \in 0..7, y \in 0..7, xd \in {0, 1}, yd \in {0, 1}}

pos(m) == <<m.x_pos, m.y_pos>>
after_move_pos(m) == <<m.x_pos + to_one(m.x_direction), m.y_pos + to_one(m.y_direction)>>
after_double_move_pos(m) ==
    <<m.x_pos + 2 * to_one(m.x_direction), m.y_pos + 2 * to_one(m.y_direction)>>

BoardLocation(used, promoted, owner) == [used |-> used, promoted |-> promoted, owner |-> owner]
Empty == BoardLocation(FALSE, FALSE, FALSE)

\* Board.__getitem__ raises KeyError outside the 8x8 grid
InBounds(p) == p[1] >= 0 /\ p[1] <= 7 /\ p[2] >= 0 /\ p[2] <= 7
\* __state[x][y]; a board is the sequence of its 64 cells, cell i = __state[i // 8][i % 8]
Idx(p) == p[1] * 8 + p[2] + 1
At(b, p) == b[Idx(p)]
SetAt(b, p, v) == [b EXCEPT ![Idx(p)] = v]

\* Board.__init__: the list of the 64 locations, in the order given
Cells(locations) == SubSeq(locations, 1, 64)

generate_game_start ==
    LET second == {<<((i % 4) * 2) + ((i \div 4) % 2), i \div 4>> : i \in 0..11}
        first == {<<((i % 4) * 2) + (((i \div 4) + 1) % 2), 7 - (i \div 4)>> : i \in 0..11}
    IN Cells([k \in 1..64 |->
          LET p == <<(k - 1) \div 8, (k - 1) % 8>>
          IN IF p \in first THEN BoardLocation(TRUE, FALSE, TRUE)
             ELSE IF p \in second THEN BoardLocation(TRUE, FALSE, FALSE)
             ELSE Empty])

translate_to_other_user(b) ==
    Cells([k \in 1..64 |-> BoardLocation(b[k].used, b[k].promoted,
                                          IF b[k].used THEN ~b[k].owner ELSE FALSE)])

\* __apply_move_no_check without line 250: the jumped piece stays on the board
apply_move_no_check_Keep(b, m) ==
    LET start_pos == At(b, pos(m))
        single == after_move_pos(m)
        double == after_double_move_pos(m)
        b1 == SetAt(b, pos(m), Empty)
    IN IF At(b, single).used
       THEN SetAt(b1, double, IF double[2] \in {0, 7}
                              THEN BoardLocation(TRUE, TRUE, start_pos.owner) ELSE start_pos)
       ELSE SetAt(b1, single, IF single[2] \in {0, 7}
                              THEN BoardLocation(TRUE, TRUE, start_pos.owner) ELSE start_pos)
\* __apply_move_no_check without lines 247-248: a jump does not promote
apply_move_no_check_Plain(b, m) ==
    LET start_pos == At(b, pos(m))
        single == after_move_pos(m)
        double == after_double_move_pos(m)
        b1 == SetAt(b, pos(m), Empty)
    IN IF At(b, single).used
       THEN SetAt(SetAt(b1, double, start_pos), single, Empty)
       ELSE SetAt(b1, single, IF single[2] \in {0, 7}
                              THEN BoardLocation(TRUE, TRUE, start_pos.owner) ELSE start_pos)
\* Board.__apply_move_no_check
apply_move_no_check(b, m) ==
    LET start_pos == At(b, pos(m))
        single == after_move_pos(m)
        double == after_double_move_pos(m)
        b1 == SetAt(b, pos(m), Empty)
    IN IF At(b, single).used
       THEN LET piece == IF double[2] \in {0, 7}
                         THEN BoardLocation(TRUE, TRUE, start_pos.owner)
                         ELSE start_pos
            IN SetAt(SetAt(b1, double, piece), single, Empty)
       ELSE LET piece == IF single[2] \in {0, 7}
                         THEN BoardLocation(TRUE, TRUE, start_pos.owner)
                         ELSE start_pos
            IN SetAt(b1, single, piece)

\* apply_move without the test of lines 215-216: anybody's piece may be moved
MoveIsValid_Anybody(b, m, allowed_y_direction, is_primary_player) ==
    /\ InBounds(pos(m))
    /\ InBounds(after_move_pos(m))
    /\ LET start_pos == At(b, pos(m))
           single_move_pos == At(b, after_move_pos(m))
       IN /\ ~((~start_pos.promoted) /\ m.y_direction # allowed_y_direction)
          /\ start_pos.used
          /\ single_move_pos.used =>
                /\ single_move_pos.owner # start_pos.owner
                /\ InBounds(after_double_move_pos(m))
                /\ ~At(b, after_double_move_pos(m)).used
\* Board.apply_move raises InvalidMove exactly when this is FALSE
MoveIsValid(b, m, allowed_y_direction, is_primary_player) ==
    /\ InBounds(pos(m))
    /\ InBounds(after_move_pos(m))
    /\ LET start_pos == At(b, pos(m))
           single_move_pos == At(b, after_move_pos(m))
       IN /\ ~((~start_pos.promoted) /\ m.y_direction # allowed_y_direction)
          /\ is_primary_player = start_pos.owner
          /\ start_pos.used
          /\ single_move_pos.used =>
                /\ single_move_pos.owner # start_pos.owner
                /\ InBounds(after_double_move_pos(m))
                /\ ~At(b, after_double_move_pos(m)).used

\* Board.apply_move: the board after the move; the caller tests MoveIsValid first
Board_apply_move(b, m, allowed_y_direction, is_primary_player) ==
    IF MoveIsValid(b, m, allowed_y_direction, is_primary_player)
    THEN apply_move_no_check(b, m)
    ELSE b

\* Board.get_possible_moves (no caller depends on the order of the list)
get_possible_moves(b, allowed_y_direction, is_primary_payer) ==
    {m \in AllMoves :
        /\ At(b, pos(m)).used
        /\ At(b, pos(m)).owner = is_primary_payer
        /\ MoveIsValid(b, m, allowed_y_direction, is_primary_payer)}

is_required(b, m, is_primary_payer) ==
    /\ InBounds(after_move_pos(m))
    /\ InBounds(after_double_move_pos(m))
    /\ At(b, after_move_pos(m)).used
    /\ At(b, after_move_pos(m)).owner # is_primary_payer
    /\ ~At(b, after_double_move_pos(m)).used

\* get_required_moves as it would be if no move were ever found to be a capture
get_required_moves_None(b, allowed_y_direction, is_primary_payer) == {}

get_required_moves(b, allowed_y_direction, is_primary_payer) ==
    {m \in get_possible_moves(b, allowed_y_direction, is_primary_payer) :
        is_required(b, m, is_primary_payer)}

check_game_over(b, is_primary_user) ==
    \A k \in 1..64 : b[k].used => b[k].owner = is_primary_user

\* ---------------------------------------------------------------- messages
Connect(version, username, password) ==
    [type |-> "Connect", version |-> version, username |-> username, password |-> password]
InvalidLogin(reason) == [type |-> "InvalidLogin", reason |-> reason]
InvalidVersion(highest, lowest) ==
    [type |-> "InvalidVersion", highest_supported_version |-> highest,
     lowest_supported_version |-> lowest]
QueuePosition(queue_size, queue_pos, rating) ==
    [type |-> "QueuePosition", queue_size |-> queue_size, queue_pos |-> queue_pos,
     rating |-> rating]
GameStart(opponent_name, opponent_rating) ==
    [type |-> "GameStart", opponent_name |-> opponent_name, opponent_rating |-> opponent_rating]
YourTurn(last_move, board) == [type |-> "YourTurn", last_move |-> last_move, board |-> board]
MakeMove(move) == [type |-> "MakeMove", move |-> move]
CompulsoryMove(move, board) == [type |-> "CompulsoryMove", move |-> move, board |-> board]
InvalidMove(move, board) == [type |-> "InvalidMove", move |-> move, board |-> board]
OpponentDisconnect == [type |-> "OpponentDisconnect"]
GameOver(you_won, new_rating, old_rating, winning_move, board) ==
    [type |-> "GameOver", you_won |-> you_won, new_rating |-> new_rating,
     old_rating |-> old_rating, winning_move |-> winning_move, board |-> board]
ReQueue == [type |-> "ReQueue"]
LogOut == [type |-> "LogOut"]

\* struct.pack accepts a value for format 'I' only in 0 .. 2^32 - 1.  The upper end is
\* beyond the integers of the model checker; every rating of the model is far below it.
FitsI(v) == v >= 0
\* Message.encode succeeds (otherwise pack raises struct.error)
CanEncode(msg) ==
    CASE msg.type = "QueuePosition" ->
            FitsI(msg.queue_size) /\ FitsI(msg.queue_pos) /\ FitsI(msg.rating)
      [] msg.type = "GameStart" -> FitsI(msg.opponent_rating)
      [] msg.type = "GameOver" -> FitsI(msg.new_rating) /\ FitsI(msg.old_rating)
      [] OTHER -> TRUE

\* ----------------------------------------------------------------- the wire
\* A buffer of bytes is a sequence of numbers 0..255; bit k of a number counts from the
\* least significant end.
Bit(v, k) == (v \div (2 ^ k)) % 2
Flag(v) == IF v THEN 1 ELSE 0

\* BoardLocation.to_bytes: the value of its one byte
BoardLocation_to_bytes(loc) == 4 * Flag(loc.used) + 2 * Flag(loc.promoted) + Flag(loc.owner)
\* BoardLocation.from_bytes
BoardLocation_from_bytes(v) == BoardLocation(Bit(v, 2) = 1, Bit(v, 1) = 1, Bit(v, 0) = 1)

\* Move.to_bytes: the value of its one byte
Move_to_bytes(m) ==
    (m.x_pos % 8) * 32 + (m.y_pos % 8) * 4 + (m.x_direction % 2) * 2 + (m.y_direction % 2)
\* Move.from_bytes
Move_from_bytes(v) == Move((v \div 32) % 8, (v \div 4) % 8, (v \div 2) % 2, v % 2)

\* Board.to_bytes.  output_val has the byte of cell i (i = 0..63, __state[i // 8][i % 8])
\* shifted left by 3 * i, so bit n of output_val is bit n % 3 of cell n // 3; the 24
\* bytes are output_val in big-endian order, byte j (1..24) holding bits 8 * (24 - j) up.
OutputBit(b, n) == Bit(BoardLocation_to_bytes(b[(n \div 3) + 1]), n % 3)
Board_to_bytes(b) ==
    [j \in 1..24 |->
        LET low == 8 * (24 - j)
        IN OutputBit(b, low) + 2 * OutputBit(b, low + 1) + 4 * OutputBit(b, low + 2)
           + 8 * OutputBit(b, low + 3) + 16 * OutputBit(b, low + 4)
           + 32 * OutputBit(b, low + 5) + 64 * OutputBit(b, low + 6)
           + 128 * OutputBit(b, low + 7)]

\* Board.from_bytes.  raw is read as a big-endian number; the generator runs i over
\* reversed(range(64)) and yields (raw >> (i * 3)) & 0x07, so the location it yields
\* first, which Board.__init__ stores as cell 0, is the one of i = 63.
RawBit(raw, n) == Bit(raw[24 - (n \div 8)], n % 8)
Board_from_bytes(raw) ==
    Cells([k \in 1..64 |->
        LET i == 63 - (k - 1)
        IN BoardLocation_from_bytes(RawBit(raw, 3 * i) + 2 * RawBit(raw, 3 * i + 1)
                                    + 4 * RawBit(raw, 3 * i + 2))])

\* Message.type of every class, and the classes message_to_type knows
type == [Connect |-> 1, InvalidLogin |-> 2, QueuePosition |-> 3, GameStart |-> 4,
         YourTurn |-> 5, MakeMove |-> 6, CompulsoryMove |-> 7, InvalidMove |-> 8,
         OpponentDisconnect |-> 9, GameOver |-> 10, ReQueue |-> 11, LogOut |-> 12,
         InvalidVersion |-> 13]
MessageTypes == DOMAIN type
\* Message.calc_size: calcsize('<' + fmt), the size without the type field
calc_size == [Connect |-> 33, InvalidLogin |-> 1, QueuePosition |-> 12, GameStart |-> 20,
              YourTurn |-> 25, MakeMove |-> 1, CompulsoryMove |-> 25, InvalidMove |-> 25,
              OpponentDisconnect |-> 0, GameOver |-> 34, ReQueue |-> 0, LogOut |-> 0,
              InvalidVersion |-> 2]

\* the bytes of the strings of the model (ASCII); TooLong has 16 bytes
Utf8 ==
    [cam |-> <<99, 97, 109>>, jen |-> <<106, 101, 110>>, kain |-> <<107, 97, 105, 110>>,
     andrei |-> <<97, 110, 100, 114, 101, 105>>, nobody |-> <<110, 111, 98, 111, 100, 121>>,
     mac |-> <<109, 97, 99>>, nej |-> <<110, 101, 106>>, niak |-> <<110, 105, 97, 107>>,
     ierdna |-> <<105, 101, 114, 100, 110, 97>>,
     abcdefghijklmnop |-> <<97, 98, 99, 100, 101, 102, 103, 104, 105, 106, 107, 108, 109,
                            110, 111, 112>>,
     empty |-> <<>>]
\* the string with these bytes; a string the model has no name for is "unknown"
FromUtf8(bs) ==
    IF \E s \in DOMAIN Utf8 : Utf8[s] = bs THEN CHOOSE s \in DOMAIN Utf8 : Utf8[s] = bs
    ELSE "unknown"

\* struct format 16s: the bytes cut or padded with zero bytes to 16
Pack16s(bs) == [k \in 1..16 |-> IF k <= Len(bs) THEN bs[k] ELSE 0]
\* bytes_strip: the bytes before the first zero byte
bytes_strip(buf) ==
    IF \E k \in 1..Len(buf) : buf[k] = 0
    THEN SubSeq(buf, 1, (CHOOSE k \in 1..Len(buf) :
                            buf[k] = 0 /\ \A j \in 1..(k - 1) : buf[j] # 0) - 1)
    ELSE buf
\* struct format I: four bytes, least significant first
PackI(v) == <<v % 256, (v \div 256) % 256, (v \div 65536) % 256, (v \div 16777216) % 256>>
UnpackI(bs) == bs[1] + 256 * bs[2] + 65536 * bs[3] + 16777216 * bs[4]

\* InvalidLogin.Reasons
Reasons == <<"AccountDoesNotExist", "InvalidPassword", "AlreadyLoggedIn">>
ReasonCode(r) == (CHOOSE k \in 1..3 : Reasons[k] = r) - 1

\* Message.encode where pack accepts the arguments (CanEncode): the type field, then
\* the arguments in the order and the formats of fmt
encode(msg) ==
    <<type[msg.type]>> \o
    CASE msg.type = "Connect" ->
            <<msg.version>> \o Pack16s(Utf8[msg.username]) \o Pack16s(Utf8[msg.password])
      [] msg.type = "InvalidLogin" -> <<ReasonCode(msg.reason)>>
      [] msg.type = "InvalidVersion" ->
            <<msg.highest_supported_version, msg.lowest_supported_version>>
      [] msg.type = "QueuePosition" ->
            PackI(msg.queue_size) \o PackI(msg.queue_pos) \o PackI(msg.rating)
      [] msg.type = "GameStart" -> Pack16s(Utf8[msg.opponent_name]) \o PackI(msg.opponent_rating)
      [] msg.type = "YourTurn" -> <<Move_to_bytes(msg.last_move)>> \o Board_to_bytes(msg.board)
      [] msg.type = "MakeMove" -> <<Move_to_bytes(msg.move)>>
      [] msg.type = "CompulsoryMove" -> <<Move_to_bytes(msg.move)>> \o Board_to_bytes(msg.board)
      [] msg.type = "InvalidMove" -> <<Move_to_bytes(msg.move)>> \o Board_to_bytes(msg.board)
      [] msg.type = "GameOver" ->
            <<msg.you_won>> \o PackI(msg.new_rating) \o PackI(msg.old_rating)
            \o <<Move_to_bytes(msg.winning_move)>> \o Board_to_bytes(msg.board)
      [] OTHER -> <<>>

\* the constructor call of cls.parse_and_decode on the unpacked body
Decoded(cls, body) ==
    CASE cls = "Connect" ->
            Connect(body[1], FromUtf8(bytes_strip(SubSeq(body, 2, 17))),
                    FromUtf8(bytes_strip(SubSeq(body, 18, 33))))
      [] cls = "InvalidLogin" -> InvalidLogin(Reasons[body[1] + 1])
      [] cls = "InvalidVersion" -> InvalidVersion(body[1], body[2])
      [] cls = "QueuePosition" ->
            QueuePosition(UnpackI(SubSeq(body, 1, 4)), UnpackI(SubSeq(body, 5, 8)),
                          UnpackI(SubSeq(body, 9, 12)))
      [] cls = "GameStart" ->
            GameStart(FromUtf8(bytes_strip(SubSeq(body, 1, 16))), UnpackI(SubSeq(body, 17, 20)))
      [] cls = "YourTurn" ->
            YourTurn(Move_from_bytes(body[1]), Board_from_bytes(SubSeq(body, 2, 25)))
      [] cls = "MakeMove" -> MakeMove(Move_from_bytes(body[1]))
      [] cls = "CompulsoryMove" ->
            CompulsoryMove(Move_from_bytes(body[1]), Board_from_bytes(SubSeq(body, 2, 25)))
      [] cls = "InvalidMove" ->
            InvalidMove(Move_from_bytes(body[1]), Board_from_bytes(SubSeq(body, 2, 25)))
      [] cls = "OpponentDisconnect" -> OpponentDisconnect
      [] cls = "GameOver" ->
            GameOver(body[1], UnpackI(SubSeq(body, 2, 5)), UnpackI(SubSeq(body, 6, 9)),
                     Move_from_bytes(body[10]), Board_from_bytes(SubSeq(body, 11, 34)))
      [] cls = "ReQueue" -> ReQueue
      [] cls = "LogOut" -> LogOut

NoMessage == [type |-> "none"]

\* parse_and_decode with its two tests exchanged: the type byte is looked at first
parse_and_decode_TypeFirst(cls, data) ==
    IF Len(data) > 0 /\ data[1] # type[cls] THEN [exc |-> "InvalidType", msg |-> NoMessage]
    ELSE IF Len(data) < calc_size[cls] + 1 THEN [exc |-> "NotEnoughData", msg |-> NoMessage]
    ELSE IF cls = "InvalidLogin" /\ data[2] > 2 THEN [exc |-> "ValueError", msg |-> NoMessage]
    ELSE [exc |-> "none", msg |-> Decoded(cls, SubSeq(data, 2, calc_size[cls] + 1))]

\* cls.parse_and_decode(data): the exception it raises ("none" if it returns) and the
\* message it returns.  InvalidLogin.Reasons(res[0]) raises ValueError for a byte that
\* is no reason code.
parse_and_decode(cls, data) ==
    IF Len(data) < calc_size[cls] + 1 THEN [exc |-> "NotEnoughData", msg |-> NoMessage]
    ELSE IF data[1] # type[cls] THEN [exc |-> "InvalidType", msg |-> NoMessage]
    ELSE IF cls = "InvalidLogin" /\ data[2] > 2 THEN [exc |-> "ValueError", msg |-> NoMessage]
    ELSE [exc |-> "none", msg |-> Decoded(cls, SubSeq(data, 2, calc_size[cls] + 1))]

\* message_to_type(raw): the class, or the exception of the failed lookup (raw[0] of an
\* empty buffer raises IndexError, a byte that is no key of the table KeyError)
message_to_type(raw) ==
    IF Len(raw) = 0 THEN "IndexError"
    ELSE IF \E cls \in MessageTypes : type[cls] = raw[1]
    THEN CHOOSE cls \in MessageTypes : type[cls] = raw[1]
    ELSE "KeyError"

\* ------------------------------------------------------------ the database
\* DictionaryDB as __main__ fills it (register_user calls)
RegisteredUsers == {"cam", "jen", "kain", "andrei"}
StartPassword ==
    [u \in RegisteredUsers |->
        CASE u = "cam" -> "mac" [] u = "jen" -> "nej" [] u = "kain" -> "niak"
          [] u = "andrei" -> "ierdna"]
StartRating ==
    [u \in RegisteredUsers |->
        CASE u = "cam" -> 1200 [] u = "jen" -> 1201 [] u = "kain" -> 1200
          [] u = "andrei" -> 1199]

\* ---------------------------------------------------------------- the world
\* W is the state of the whole server while a callback runs:
\*   state, username, rating, game, handle : the fields of each Session
\*   users  : UserQueue.__users           games : every Game object created
\*   db     : DictionaryDB.__data         sent  : what each handle was given to write
\*   exc    : the exception that is propagating, "none" if there is none
Raise(W, e) == [W EXCEPT !.exc = e]
Raised(W) == W.exc # "none"
NamesOk(W, S) == \A c \in S : W.username[c] # None    \* Session.username does not raise

\* Session.__eq__, and the identity shortcut of list membership tests
SessionEq(W, a, b) == a = b \/ W.username[a] = W.username[b]

\* Session.__send
Session_send(W, c, msg) ==
    IF Raised(W) THEN W
    ELSE IF ~CanEncode(msg) THEN Raise(W, "struct.error")
    ELSE IF W.username[c] = None THEN Raise(W, "AttributeError")
    ELSE [W EXCEPT !.sent[c] = Append(@, msg)]

\* ---------------------------------------------------------------- UserQueue
Queue_contains(W, c) == \E i \in 1..Len(W.users) : SessionEq(W, W.users[i], c)
Queue_index(W, c) ==
    CHOOSE i \in 1..Len(W.users) :
        /\ SessionEq(W, W.users[i], c)
        /\ \A j \in 1..(i - 1) : ~SessionEq(W, W.users[j], c)
RemoveAt(s, i) == SubSeq(s, 1, i - 1) \o SubSeq(s, i + 1, Len(s))

\* enqueue_user without the test of line 42
enqueue_user_Unchecked(W, c) ==
    IF Raised(W) THEN W
    ELSE [W EXCEPT !.users = Append(@, c)]

enqueue_user(W, c) ==
    IF Raised(W) THEN W
    ELSE IF Queue_contains(W, c) THEN Raise(W, "DuplicateUser")
    ELSE [W EXCEPT !.users = Append(@, c)]

dequeue_user(W, c) ==
    IF Raised(W) THEN W
    ELSE IF ~Queue_contains(W, c) THEN Raise(W, "NotInQueue")
    ELSE [W EXCEPT !.users = RemoveAt(@, Queue_index(W, c))]

\* UserQueue.location_of where it does not raise
location_of(W, c) == Queue_index(W, c) - 1
\* UserQueue.location_of: the world it leaves and the index it returns (-1 if it raises)
UserQueue_location_of(W, c) ==
    IF Queue_contains(W, c) THEN [w |-> W, index |-> location_of(W, c)]
    ELSE [w |-> Raise(W, "NotInQueue"), index |-> -1]

Abs(v) == IF v < 0 THEN -v ELSE v

\* the two nested loops of pop_closest_pair; k numbers the pairs in scan order
RECURSIVE ScanClosest(_, _, _, _)
ScanClosest(W, k, best_user_pair, smallest_diff) ==
    LET n == Len(W.users)
    IN IF k >= n * n THEN best_user_pair
       ELSE LET user == W.users[(k \div n) + 1]
                inner_user == W.users[(k % n) + 1]
                diff == Abs(W.rating[user] - W.rating[inner_user])
            IN IF W.username[user] = W.username[inner_user]
               THEN ScanClosest(W, k + 1, best_user_pair, smallest_diff)
               ELSE IF diff < smallest_diff
               THEN ScanClosest(W, k + 1, <<user, inner_user>>, diff)
               ELSE ScanClosest(W, k + 1, best_user_pair, smallest_diff)

\* the loops of pop_closest_pair (lines 64-72): the pair they leave in best_user_pair,
\* <<0, 0>> for (None, None)
closest_pair(W) == ScanClosest(W, 0, <<0, 0>>, InitialSmallestDiff)

\* UserQueue.pop_closest_pair: the world it leaves and the pair it returns.  With
\* best_user_pair still (None, None), dequeue_user(None) compares a queued session with
\* None in Session.__eq__, which raises AttributeError.
pop_closest_pair(W) ==
    IF Len(W.users) < 2 THEN [w |-> Raise(W, "QueueTooSmall"), pair |-> <<0, 0>>]
    ELSE IF ~NamesOk(W, {W.users[i] : i \in 1..Len(W.users)})
    THEN [w |-> Raise(W, "AttributeError"), pair |-> <<0, 0>>]
    ELSE LET pair == closest_pair(W)
         IN IF pair = <<0, 0>> THEN [w |-> Raise(W, "AttributeError"), pair |-> pair]
            ELSE [w |-> dequeue_user(dequeue_user(W, pair[1]), pair[2]), pair |-> pair]

\* ------------------------------------------------------------ Session, Game
Game_is_primary(W, g, user) == W.username[user] = W.username[W.games[g].player_one]
\* __get_opponent with its two branches exchanged
Game_get_opponent_Swapped(W, g, user) ==
    IF Game_is_primary(W, g, user) THEN W.games[g].player_one ELSE W.games[g].player_two
Game_get_opponent(W, g, user) ==
    IF Game_is_primary(W, g, user) THEN W.games[g].player_two ELSE W.games[g].player_one
Game_get_allowed_direction(W, g, user) ==
    IF Game_is_primary(W, g, user) THEN Negative ELSE Positive
Game_get_board(W, g, user) ==
    IF Game_is_primary(W, g, user) THEN W.games[g].board
    ELSE translate_to_other_user(W.games[g].board)

\* the test of line 74, self.__next_to_go != user: Session defines __eq__ only, so != is
\* its negation and compares the usernames
Game_not_next_to_go(W, g, user) == W.username[W.games[g].next_to_go] # W.username[user]

\* assignment to the fields of Game g
SetGame(W, g, G) ==
    [W EXCEPT !.games = SubSeq(@, 1, g - 1) \o <<G>> \o SubSeq(@, g + 1, Len(@))]

RECURSIVE Session_disconnect(_, _)
RECURSIVE Session_on_opponent_disconnect(_, _)
RECURSIVE Game_user_disconnect(_, _, _)

\* Session.disconnect(force=False)
Session_disconnect(W, c) ==
    IF Raised(W) THEN W
    ELSE IF W.username[c] = None THEN Raise(W, "AttributeError")
    ELSE LET W1 == IF Queue_contains(W, c) THEN dequeue_user(W, c) ELSE W
             W2 == IF W1.game[c] # NoGame
                   THEN Game_user_disconnect([W1 EXCEPT !.game[c] = NoGame], W1.game[c], c)
                   ELSE W1
         IN IF Raised(W2) THEN W2
            ELSE [W2 EXCEPT !.rating[c] = NoRating,
                            !.username[c] = None,
                            !.state[c] = UNAUTHENTICATED,
                            !.handle[c] = IF @ = "active" THEN "shutdown" ELSE @]

\* Session.on_opponent_disconnect
Session_on_opponent_disconnect(W, c) ==
    IF Raised(W) THEN W
    ELSE IF W.state[c] \notin {PROCESSING_GAME_STATE, USER_MOVE}
    THEN Session_disconnect(W, c)
    ELSE LET W1 == Session_send(W, c, OpponentDisconnect)
         IN IF Raised(W1) THEN W1
            ELSE [W1 EXCEPT !.game[c] = NoGame, !.state[c] = GAME_END]

\* Game.user_disconnect
Game_user_disconnect(W, g, user) ==
    IF Raised(W) THEN W
    ELSE IF ~NamesOk(W, {user, W.games[g].player_one}) THEN Raise(W, "AttributeError")
    ELSE Session_on_opponent_disconnect(W, Game_get_opponent(W, g, user))

\* on_compulsory_move without the CompulsoryMove message
Session_on_compulsory_move_Silent(W, c, move, board) ==
    IF Raised(W) THEN W
    ELSE IF W.state[c] # PROCESSING_GAME_STATE THEN Session_disconnect(W, c)
    ELSE [W EXCEPT !.state[c] = PROCESSING_GAME_STATE]
\* Session.on_compulsory_move
Session_on_compulsory_move(W, c, move, board) ==
    IF Raised(W) THEN W
    ELSE IF W.state[c] # PROCESSING_GAME_STATE THEN Session_disconnect(W, c)
    ELSE LET W1 == Session_send(W, c, CompulsoryMove(move, board))
         IN IF Raised(W1) THEN W1 ELSE [W1 EXCEPT !.state[c] = PROCESSING_GAME_STATE]

\* Session.on_request_move
\* on_request_move without the change of state of line 113
Session_on_request_move_Waiting(W, c, last_move, board) ==
    IF Raised(W) THEN W
    ELSE IF W.state[c] # PROCESSING_GAME_STATE THEN Session_disconnect(W, c)
    ELSE Session_send(W, c, YourTurn(last_move, board))

Session_on_request_move(W, c, last_move, board) ==
    IF Raised(W) THEN W
    ELSE IF W.state[c] # PROCESSING_GAME_STATE THEN Session_disconnect(W, c)
    ELSE LET W1 == Session_send(W, c, YourTurn(last_move, board))
         IN IF Raised(W1) THEN W1 ELSE [W1 EXCEPT !.state[c] = USER_MOVE]

\* DictionaryDB.set_rating
set_rating(W, username, rating) ==
    IF Raised(W) THEN W
    ELSE IF username \notin DOMAIN W.db THEN Raise(W, "UserDoesNotExist")
    ELSE [W EXCEPT !.db[username].rating = rating]

\* Session.on_game_end
Session_on_game_end(W, c, last_move, board, rating_change, winner) ==
    IF Raised(W) THEN W
    ELSE IF W.state[c] # PROCESSING_GAME_STATE THEN Session_disconnect(W, c)
    ELSE LET new == W.rating[c] + rating_change
             W1 == Session_send(W, c, GameOver(winner, new, W.rating[c], last_move, board))
             W2 == set_rating(W1, W.username[c], new)
         IN IF Raised(W2) THEN W2
            ELSE [W2 EXCEPT !.rating[c] = new, !.state[c] = GAME_END]

\* Session.on_queue_position
Session_on_queue_position(W, c, queue_size, queue_position) ==
    IF Raised(W) THEN W
    ELSE IF W.state[c] # IN_QUEUE THEN Session_disconnect(W, c)
    ELSE Session_send(W, c, QueuePosition(queue_size, queue_position, W.rating[c]))

\* on_game_start without the GameStart message
Session_on_game_start_Silent(W, c, opponent_name, opponent_rating, g) ==
    IF Raised(W) THEN W
    ELSE LET W0 == [W EXCEPT !.game[c] = g]
         IN IF W0.state[c] # IN_QUEUE THEN Session_disconnect(W0, c)
            ELSE [W0 EXCEPT !.state[c] = PROCESSING_GAME_STATE]
\* Session.on_game_start
Session_on_game_start(W, c, opponent_name, opponent_rating, g) ==
    IF Raised(W) THEN W
    ELSE LET W0 == [W EXCEPT !.game[c] = g]
         IN IF W0.state[c] # IN_QUEUE THEN Session_disconnect(W0, c)
            ELSE LET W1 == Session_send(W0, c, GameStart(opponent_name, opponent_rating))
                 IN IF Raised(W1) THEN W1
                    ELSE [W1 EXCEPT !.state[c] = PROCESSING_GAME_STATE]

\* Game.__finish_game
Game_finish_game(W, g, winner, last_move) ==
    IF Raised(W) THEN W
    ELSE IF ~NamesOk(W, {winner, W.games[g].player_one}) THEN Raise(W, "AttributeError")
    ELSE LET loser == Game_get_opponent(W, g, winner)
         IN IF ~NamesOk(W, {loser}) THEN Raise(W, "AttributeError")
            ELSE LET W1 == Session_on_game_end(W, winner, last_move,
                                               Game_get_board(W, g, winner), 10, TRUE)
                 IN IF Raised(W1) THEN W1
                    ELSE IF ~NamesOk(W1, {loser, W1.games[g].player_one})
                    THEN Raise(W1, "AttributeError")
                    ELSE Session_on_game_end(W1, loser, last_move,
                                             Game_get_board(W1, g, loser), -10, FALSE)

\* lines 123-124 without the test x.pos == piece_to_move: any piece may capture next
pinned_moves_Unpinned(b, allowed_y_direction, is_primary_player, piece_to_move) ==
    get_required_moves(b, allowed_y_direction, is_primary_player)
\* the list comprehension of lines 123-124: the captures of the piece that just captured
pinned_moves(b, allowed_y_direction, is_primary_player, piece_to_move) ==
    {x \in get_required_moves(b, allowed_y_direction, is_primary_player) :
        pos(x) = piece_to_move}

\* Game.__process_game_state.  random.choice makes it nondeterministic: the result is
\* the set of the outcomes [w |-> world, last |-> the Move returned (NoMove for None)].
RECURSIVE Game_process_game_state(_, _)
RECURSIVE CompulsiveLoop(_, _, _, _, _, _, _)

\* the while loop (lines 113-124) and what follows it (lines 126-129)
CompulsiveLoop(W, g, allowed_y_direction, is_primary_player, compulsive_moves, piece_to_move, compulsive_move) ==
    IF compulsive_moves = {}
    THEN IF piece_to_move # <<>>
         THEN IF ~NamesOk(W, {W.games[g].next_to_go, W.games[g].player_one})
              THEN {[w |-> Raise(W, "AttributeError"), last |-> NoMove]}
              ELSE LET W1 == SetGame(W, g, [W.games[g] EXCEPT !.next_to_go =
                                           Game_get_opponent(W, g, W.games[g].next_to_go)])
                   IN {[w |-> r.w,
                        last |-> IF r.last # NoMove THEN r.last ELSE compulsive_move] :
                          r \in Game_process_game_state(W1, g)}
         ELSE {[w |-> W, last |-> compulsive_move]}
    ELSE UNION {
           LET G == W.games[g]
           IN IF ~NamesOk(W, {G.player_one, G.player_two})
              THEN {[w |-> Raise(W, "AttributeError"), last |-> NoMove]}
              ELSE LET W1 == SetGame(W, g, [G EXCEPT !.board =
                                  Board_apply_move(@, cm, allowed_y_direction, is_primary_player)])
                       W2 == Session_on_compulsory_move(W1, G.player_one, cm,
                                                        Game_get_board(W1, g, G.player_one))
                       W3 == IF Raised(W2) THEN W2
                             ELSE IF ~NamesOk(W2, {G.player_one, G.player_two})
                             THEN Raise(W2, "AttributeError")
                             ELSE Session_on_compulsory_move(W2, G.player_two, cm,
                                                             Game_get_board(W2, g, G.player_two))
                   IN IF Raised(W3) THEN {[w |-> W3, last |-> NoMove]}
                      ELSE CompulsiveLoop(W3, g, allowed_y_direction, is_primary_player,
                               pinned_moves(W3.games[g].board, allowed_y_direction,
                                            is_primary_player, after_double_move_pos(cm)),
                               after_double_move_pos(cm), cm)
           : cm \in compulsive_moves}

Game_process_game_state(W, g) ==
    LET G == W.games[g]
    IN IF ~NamesOk(W, {G.next_to_go, G.player_one})
       THEN {[w |-> Raise(W, "AttributeError"), last |-> NoMove]}
       ELSE LET allowed_y_direction == Game_get_allowed_direction(W, g, G.next_to_go)
                is_primary_player == Game_is_primary(W, g, G.next_to_go)
            IN CompulsiveLoop(W, g, allowed_y_direction, is_primary_player,
                   get_required_moves(G.board, allowed_y_direction, is_primary_player),
                   <<>>, NoMove)

\* lines 92-100 of Game.apply_move, after __process_game_state returned
AfterProcessing(W, g, last_move) ==
    LET G == W.games[g]
    IN IF check_game_over(G.board, TRUE) THEN Game_finish_game(W, g, G.player_one, last_move)
       ELSE IF check_game_over(G.board, FALSE)
       THEN Game_finish_game(W, g, G.player_two, last_move)
       ELSE IF ~NamesOk(W, {G.next_to_go, G.player_one}) THEN Raise(W, "AttributeError")
       ELSE Session_on_request_move(W, G.next_to_go, last_move,
                                    Game_get_board(W, g, G.next_to_go))

\* Game.apply_move: the set of its outcomes
Game_apply_move(W, g, move, user) ==
    LET G == W.games[g]
    IN IF ~NamesOk(W, {user}) THEN {Raise(W, "AttributeError")}
       ELSE IF Game_not_next_to_go(W, g, user)
       THEN {Raise(W, "InvalidMoveException")}
       ELSE IF ~NamesOk(W, {G.player_one}) THEN {Raise(W, "AttributeError")}
       ELSE LET allowed_y_direction == Game_get_allowed_direction(W, g, user)
                is_primary_player == Game_is_primary(W, g, user)
            IN IF ~MoveIsValid(G.board, move, allowed_y_direction, is_primary_player)
               THEN {Raise(W, "InvalidMoveException")}
               ELSE LET W1 == SetGame(W, g, [G EXCEPT
                                 !.board = Board_apply_move(@, move, allowed_y_direction,
                                                            is_primary_player),
                                 !.next_to_go = Game_get_opponent(W, g, user)])
                    IN {IF Raised(r.w) THEN r.w
                        ELSE AfterProcessing(r.w, g, IF r.last # NoMove THEN r.last ELSE move) :
                          r \in Game_process_game_state(W1, g)}

\* lines 31-36 of Game.__init__ with the comparison turned round
Game_player_one_Higher(W, a, b) == IF W.rating[a] > W.rating[b] THEN a ELSE b
\* lines 31-36 of Game.__init__: who becomes self.__player_one
Game_player_one(W, a, b) == IF W.rating[a] < W.rating[b] THEN a ELSE b

\* Game.__init__ called with (player_one, player_two) = (a, b)
Game_init(W, a, b) ==
    IF Raised(W) THEN W
    ELSE IF ~NamesOk(W, {a, b}) THEN Raise(W, "AttributeError")
    ELSE IF W.username[a] = W.username[b] THEN Raise(W, "InvalidGameException")
    ELSE LET p1 == Game_player_one(W, a, b)
             p2 == IF p1 = a THEN b ELSE a
             g == Len(W.games) + 1
             W0 == [W EXCEPT !.games = Append(@, [player_one |-> p1, player_two |-> p2,
                                                  board |-> generate_game_start,
                                                  next_to_go |-> p1])]
             W1 == Session_on_game_start(W0, a, W0.username[b], W0.rating[b], g)
             W2 == IF Raised(W1) THEN W1
                   ELSE IF ~NamesOk(W1, {a}) THEN Raise(W1, "AttributeError")
                   ELSE Session_on_game_start(W1, b, W1.username[a], W1.rating[a], g)
         IN Session_on_request_move(W2, p1, Move(0, 0, Negative, Negative), W0.games[g].board)

\* the for loop of __make_match (lines 125-126); i is the position of the list iterator
RECURSIVE NotifyQueue(_, _)
NotifyQueue(W, i) ==
    IF Raised(W) \/ i > Len(W.users) THEN W
    ELSE NotifyQueue(Session_on_queue_position(W, W.users[i], Len(W.users),
                                               location_of(W, W.users[i]) + 1), i + 1)

\* the except clause of __make_match (lines 116-121): an InvalidGameException puts both
\* sessions back at the end of the queue
requeue_pair(W, pair) ==
    IF W.exc = "InvalidGameException"
    THEN enqueue_user(enqueue_user([W EXCEPT !.exc = "none"], pair[1]), pair[2])
    ELSE W

\* the log of line 122, which reads the username of both sessions
log_pair(W, pair) ==
    IF Raised(W) THEN W
    ELSE IF ~NamesOk(W, {pair[1], pair[2]}) THEN Raise(W, "AttributeError")
    ELSE W

\* the try block of __make_match (lines 111-124) entered with the result of the pop
match_popped(W, popped) ==
    IF popped.w.exc = "QueueTooSmall" THEN W       \* caught, line 123
    ELSE IF Raised(popped.w) THEN popped.w
    ELSE log_pair(requeue_pair(Game_init(popped.w, popped.pair[1], popped.pair[2]),
                               popped.pair), popped.pair)

\* UserQueue.__make_match
make_match(W) == NotifyQueue(match_popped(W, pop_closest_pair(W)), 1)

\* --------------------------------------------- Session: the state handlers
\* Session.__msg_on_unauthenticated
msg_on_unauthenticated(W, c, msg) ==
    IF msg.type = "Connect"
    THEN IF msg.version \notin supported_versions
         THEN Session_send(W, c, InvalidVersion(1, 1))
         ELSE IF msg.username \notin DOMAIN W.db                 \* UserDoesNotExist
         THEN Session_send(W, c, InvalidLogin("AccountDoesNotExist"))
         ELSE IF W.db[msg.username].password # msg.password      \* InvalidPassword
         THEN Session_send(W, c, InvalidLogin("InvalidPassword"))
         ELSE LET W1 == [W EXCEPT !.username[c] = msg.username,
                                  !.rating[c] = W.db[msg.username].rating]
                  W2 == enqueue_user(W1, c)
              IN IF W2.exc = "DuplicateUser"
                 THEN Session_send([W2 EXCEPT !.exc = "none"], c, InvalidLogin("AlreadyLoggedIn"))
                 ELSE LET W3 == Session_send(W2, c,
                                    QueuePosition(Len(W2.users), location_of(W2, c) + 1,
                                                  W2.rating[c]))
                      IN IF Raised(W3) THEN W3 ELSE [W3 EXCEPT !.state[c] = IN_QUEUE]
    ELSE Session_disconnect(W, c)

\* the LogOut branch of __msg_on_processing_game_state and of __msg_on_user_move
LeaveGame(W, c) ==
    IF ~NamesOk(W, {c}) \/ W.game[c] = NoGame THEN Raise(W, "AttributeError")
    ELSE LET W1 == Game_user_disconnect([W EXCEPT !.game[c] = NoGame], W.game[c], c)
         IN IF Raised(W1) THEN W1
            ELSE [W1 EXCEPT !.state[c] = UNAUTHENTICATED,
                            !.rating[c] = NoRating,
                            !.username[c] = None]

\* Session.__msg_on_in_queue
msg_on_in_queue(W, c, msg) ==
    IF msg.type = "LogOut"
    THEN IF ~NamesOk(W, {c}) THEN Raise(W, "AttributeError")
         ELSE LET W1 == dequeue_user(W, c)
                  W2 == IF W1.exc = "NotInQueue" THEN W ELSE W1
              IN [W2 EXCEPT !.state[c] = UNAUTHENTICATED,
                            !.rating[c] = NoRating,
                            !.username[c] = None]
    ELSE Session_disconnect(W, c)

\* Session.__msg_on_processing_game_state
msg_on_processing_game_state(W, c, msg) ==
    IF msg.type = "LogOut" THEN LeaveGame(W, c) ELSE Session_disconnect(W, c)

\* Session.__msg_on_user_move: the set of its outcomes
msg_on_user_move(W, c, msg) ==
    IF msg.type = "MakeMove"
    THEN LET W1 == [W EXCEPT !.state[c] = PROCESSING_GAME_STATE]
         IN IF W1.game[c] = NoGame THEN {Raise(W1, "AttributeError")}
            ELSE {IF w.exc = "InvalidMoveException"
                  THEN LET W2 == [w EXCEPT !.exc = "none", !.state[c] = USER_MOVE]
                       IN IF ~NamesOk(W2, {c, W2.games[W2.game[c]].player_one})
                          THEN Raise(W2, "AttributeError")
                          ELSE Session_send(W2, c,
                                   InvalidMove(msg.move, Game_get_board(W2, W2.game[c], c)))
                  ELSE IF Raised(w) THEN w
                  ELSE IF ~NamesOk(w, {c}) THEN Raise(w, "AttributeError")
                  ELSE w :
                    w \in Game_apply_move(W1, W1.game[c], msg.move, c)}
    ELSE IF msg.type = "LogOut" THEN {LeaveGame(W, c)}
    ELSE {Session_disconnect(W, c)}

\* __msg_on_game_end without its MakeMove branch: every message but ReQueue and LogOut
\* is answered with disconnect()
msg_on_game_end_Fatal(W, c, msg) ==
    IF msg.type \in {"ReQueue", "LogOut"} THEN W ELSE Session_disconnect(W, c)
\* Session.__msg_on_game_end
msg_on_game_end(W, c, msg) ==
    IF msg.type = "MakeMove"
    THEN IF ~NamesOk(W, {c}) THEN Raise(W, "AttributeError") ELSE W
    ELSE IF msg.type = "ReQueue"
    THEN IF ~NamesOk(W, {c}) THEN Raise(W, "AttributeError")
         ELSE LET W1 == enqueue_user(W, c)
              IN IF Raised(W1) THEN W1
                 ELSE Session_send([W1 EXCEPT !.state[c] = IN_QUEUE], c,
                          QueuePosition(Len(W1.users), location_of(W1, c) + 1, W1.rating[c]))
    ELSE IF msg.type = "LogOut"
    THEN IF ~NamesOk(W, {c}) THEN Raise(W, "AttributeError")
         ELSE [W EXCEPT !.username[c] = None, !.rating[c] = NoRating,
                        !.game[c] = NoGame, !.state[c] = UNAUTHENTICATED]
    ELSE Session_disconnect(W, c)

\* the dispatch of __on_data (lines 230-236): the handler of the current state
Dispatch(W, c, msg) ==
    CASE W.state[c] = UNAUTHENTICATED -> {msg_on_unauthenticated(W, c, msg)}
      [] W.state[c] = IN_QUEUE -> {msg_on_in_queue(W, c, msg)}
      [] W.state[c] = PROCESSING_GAME_STATE -> {msg_on_processing_game_state(W, c, msg)}
      [] W.state[c] = USER_MOVE -> msg_on_user_move(W, c, msg)
      [] W.state[c] = GAME_END -> {msg_on_game_end(W, c, msg)}

\* Session.__on_data with error None and data holding exactly one complete message.
\* The debug log of lines 220-223 evaluates self.username, which raises AttributeError
\* while the session has no username; that exception is not caught.
on_data(W, c, msg) ==
    IF W.username[c] = None THEN {Raise(W, "AttributeError")} ELSE Dispatch(W, c, msg)

\* Session.__on_data with an error (end of file or any other): both branches end in
\* self.disconnect(); the other branch logs self.username first, which raises in the
\* same case as disconnect does.
on_error(W, c) == Session_disconnect(W, c)

\* Session.__on_data with error None and the raw buffer of one read.  Its outcomes are
\* the world it leaves, the list of the messages it gave to a state handler, each with
\* the state it was handled in, and how many times the method was entered.  message_to_type raises IndexError or KeyError
\* and parse_and_decode ValueError, none of which is caught; NotEnoughData is caught, the
\* critical log evaluates self.username, then disconnect().  After the handler the
\* method calls itself with data[msg.calc_size():] while len(data) > calc_size() + 1.
RECURSIVE Session_on_data(_, _, _, _)
Session_on_data(W, c, data, handled) ==
    LET cls == message_to_type(data)
        entered == Len(handled) + 1
    IN IF cls \in {"IndexError", "KeyError"}
       THEN {[w |-> Raise(W, cls), handled |-> handled, calls |-> entered]}
       ELSE LET parsed == parse_and_decode(cls, data)
            IN IF parsed.exc = "NotEnoughData"
               THEN {[w |-> IF W.username[c] = None THEN Raise(W, "AttributeError")
                            ELSE Session_disconnect(W, c),
                      handled |-> handled, calls |-> entered]}
               ELSE IF parsed.exc # "none"
               THEN {[w |-> Raise(W, parsed.exc), handled |-> handled, calls |-> entered]}
               ELSE IF W.username[c] = None
               THEN {[w |-> Raise(W, "AttributeError"), handled |-> handled,
                      calls |-> entered]}
               ELSE LET now == Append(handled, [state |-> W.state[c], msg |-> parsed.msg])
                    IN UNION {IF ~Raised(w1) /\ Len(data) > calc_size[cls] + 1
                              THEN Session_on_data(w1, c,
                                       SubSeq(data, calc_size[cls] + 1, Len(data)), now)
                              ELSE {[w |-> w1, handled |-> now, calls |-> entered]} :
                                  w1 \in Dispatch(W, c, parsed.msg)}

\* ------------------------------------------------------------------- state
VARIABLES
    state,      \* Session.__current_state of each session
    username,   \* Session.__username
    rating,     \* Session.__rating
    game,       \* Session.__game: the number of the Game, NoGame for None
    handle,     \* the session's TCP handle: "active" (reading), "shutdown" (stop_read
                \* and shutdown were called), "eof" (the peer closed, no shutdown)
    users,      \* UserQueue.__users
    games,      \* every Game created so far: player_one, player_two, board, next_to_go
    db,         \* DictionaryDB.__data
    sent,       \* the messages each handle was given to write by the last callback
    exc,        \* the exception that left the last callback, "none" if it returned
    ev,         \* the last callback: its kind, its session and the message it decoded
    nmoves,     \* how many MakeMove messages the engine has accepted
    nlogins,    \* how many Connect messages the store has accepted
    protocol_state, \* Client.__protocol_state of the client of each connection
    waiting,    \* what the client's callback is blocked on: "start" (the connection
                \* callback has not run), "move" (get_move), "replay" (prompt_play_again),
                \* "none" (back in the loop)
    closed,     \* the client called __close
    up,         \* the messages each client has written and its session has not read
    down        \* the messages each session has written and its client has not read

client_vars == <<protocol_state, waiting, closed, up, down>>
vars ==
    <<state, username, rating, game, handle, users, games, db, sent, exc, ev, nmoves, nlogins,
      protocol_state, waiting, closed, up, down>>

\* no handle was given anything to write yet
NothingSent == SubSeq([c \in Conn |-> <<>>], 1, NConn)

\* the world a callback starts in
World ==
    [state |-> state, username |-> username, rating |-> rating, game |-> game,
     handle |-> handle, users |-> users, games |-> games, db |-> db,
     sent |-> NothingSent, exc |-> "none"]

\* the variables of the server take the values a callback leaves
CommitServer(w, e, n, l) ==
    /\ state' = w.state
    /\ username' = w.username
    /\ rating' = w.rating
    /\ game' = w.game
    /\ handle' = w.handle
    /\ users' = w.users
    /\ games' = w.games
    /\ db' = w.db
    /\ sent' = w.sent
    /\ exc' = w.exc
    /\ ev' = e
    /\ nmoves' = n
    /\ nlogins' = l

\* a callback of the server with no client in the picture
Commit(w, e, n, l) == CommitServer(w, e, n, l) /\ UNCHANGED client_vars

Event(kind, c, msg) == [kind |-> kind, conn |-> c, msg |-> msg]

\* Every client is where its session is and nothing is in flight: a client whose session
\* is UNAUTHENTICATED has not run its connection callback, a client whose session is in
\* USER_MOVE is asking its user for a move, a client whose session is in GAME_END is
\* asking whether to play again.
ClientsInStep ==
    /\ protocol_state = state
    /\ waiting = [c \in Conn |-> CASE state[c] = UNAUTHENTICATED -> "start"
                                   [] state[c] = USER_MOVE -> "move"
                                   [] state[c] = GAME_END -> "replay"
                                   [] OTHER -> "none"]
    /\ closed = [c \in Conn |-> FALSE]
    /\ up = [c \in Conn |-> <<>>]
    /\ down = [c \in Conn |-> <<>>]

\* Session.__init__ for every session, UserQueue.__init__, and the users __main__ registers
InitFresh ==
    /\ state = [c \in Conn |-> UNAUTHENTICATED]
    /\ username = [c \in Conn |-> None]
    /\ rating = [c \in Conn |-> NoRating]
    /\ game = [c \in Conn |-> NoGame]
    /\ handle = [c \in Conn |-> "active"]
    /\ users = <<>>
    /\ games = <<>>
    /\ db = [u \in RegisteredUsers |-> [password |-> StartPassword[u], rating |-> StartRating[u]]]
    /\ sent = NothingSent
    /\ exc = "none"
    /\ ev = Event("init", 0, NoMessage)
    /\ nmoves = 0
    /\ nlogins = 0
    /\ ClientsInStep

\* cam and jen have logged in, in this order, and wait in the queue for the timer
InitQueued ==
    /\ state = [c \in Conn |-> IF c \in {1, 2} THEN IN_QUEUE ELSE UNAUTHENTICATED]
    /\ username = [c \in Conn |-> CASE c = 1 -> "cam" [] c = 2 -> "jen" [] OTHER -> None]
    /\ rating = [c \in Conn |-> CASE c = 1 -> StartRating["cam"]
                                  [] c = 2 -> StartRating["jen"]
                                  [] OTHER -> NoRating]
    /\ game = [c \in Conn |-> NoGame]
    /\ handle = [c \in Conn |-> "active"]
    /\ users = <<1, 2>>
    /\ games = <<>>
    /\ db = [u \in RegisteredUsers |-> [password |-> StartPassword[u], rating |-> StartRating[u]]]
    /\ sent = NothingSent
    /\ exc = "none"
    /\ ev = Event("init", 0, NoMessage)
    /\ nmoves = 0
    /\ nlogins = 0
    /\ ClientsInStep

\* A position late in a game.  A play-out of game.py between cam (player one, session 1)
\* and jen (session 2) from generate_game_start reached it after 75 accepted moves, with
\* cam to move: cam has kings on (5,1) and (6,2), jen has a king on (7,3).  It is far
\* beyond MaxMoves moves from the start position, so the model starts there as well.
EndgameBoard ==
    Cells([k \in 1..64 |->
        IF k \in {Idx(<<5, 1>>), Idx(<<6, 2>>)} THEN BoardLocation(TRUE, TRUE, TRUE)
        ELSE IF k = Idx(<<7, 3>>) THEN BoardLocation(TRUE, TRUE, FALSE)
        ELSE Empty])
\* the ratings of cam and jen at that point: the registered ones, or what is left of
\* them after 120 lost games each against the other registered users
EndgameRatings == {<<1200, 1201>>, <<0, 1>>}

InitEndgame ==
    \E r \in EndgameRatings :
        /\ state = [c \in Conn |-> CASE c = 1 -> USER_MOVE
                                     [] c = 2 -> PROCESSING_GAME_STATE
                                     [] OTHER -> UNAUTHENTICATED]
        /\ username = [c \in Conn |-> CASE c = 1 -> "cam" [] c = 2 -> "jen" [] OTHER -> None]
        /\ rating = [c \in Conn |-> IF c \in {1, 2} THEN r[c] ELSE NoRating]
        /\ game = [c \in Conn |-> IF c \in {1, 2} THEN 1 ELSE NoGame]
        /\ handle = [c \in Conn |-> "active"]
        /\ users = <<>>
        /\ games = <<[player_one |-> 1, player_two |-> 2, board |-> EndgameBoard,
                      next_to_go |-> 1]>>
        /\ db = [u \in RegisteredUsers |->
                    [password |-> StartPassword[u], rating |-> IF u = "cam" THEN r[1] ELSE r[2]]]
        /\ sent = NothingSent
        /\ exc = "none"
        /\ ev = Event("init", 0, NoMessage)
        /\ nmoves = 0
        /\ nlogins = 0
        /\ ClientsInStep

Init == InitFresh \/ InitQueued \/ InitEndgame

\* The board of the first game once it is decided: from EndgameBoard cam plays
\* (5,1)->(4,0), jen's king must capture (7,3)->(5,1), cam's king must capture
\* (4,0)->(6,2), and jen has no piece left.
FinishedBoard ==
    Cells([k \in 1..64 |-> IF k = Idx(<<6, 2>>) THEN BoardLocation(TRUE, TRUE, TRUE) ELSE Empty])

\* The server after a rematch.  From InitEndgame with the registered ratings cam won the
\* first game (ratings 1210 and 1191, stored); cam's session 1 stays in GAME_END and
\* still refers to that game; jen sent ReQueue, a third connection logged in as cam, and
\* the timer paired them: Game.__init__ made jen, who has the lower rating, player one of
\* the second game and sent jen YourTurn.
InitRematch ==
    /\ state = [c \in Conn |-> CASE c = 1 -> GAME_END
                                 [] c = 2 -> USER_MOVE
                                 [] OTHER -> IF c = 3 THEN PROCESSING_GAME_STATE
                                             ELSE UNAUTHENTICATED]
    /\ username = [c \in Conn |-> CASE c = 1 -> "cam" [] c = 2 -> "jen" [] c = 3 -> "cam"
                                    [] OTHER -> None]
    /\ rating = [c \in Conn |-> CASE c = 1 -> 1210 [] c = 2 -> 1191 [] c = 3 -> 1210
                                  [] OTHER -> NoRating]
    /\ game = [c \in Conn |-> CASE c = 1 -> 1 [] c = 2 -> 2 [] c = 3 -> 2 [] OTHER -> NoGame]
    /\ handle = [c \in Conn |-> "active"]
    /\ users = <<>>
    /\ games = <<[player_one |-> 1, player_two |-> 2, board |-> FinishedBoard,
                  next_to_go |-> 2],
                 [player_one |-> 2, player_two |-> 3, board |-> generate_game_start,
                  next_to_go |-> 2]>>
    /\ db = [u \in RegisteredUsers |->
                [password |-> StartPassword[u], rating |-> IF u = "cam" THEN 1210 ELSE 1191]]
    /\ sent = NothingSent
    /\ exc = "none"
    /\ ev = Event("init", 0, NoMessage)
    /\ nmoves = 0
    /\ nlogins = 0
    /\ ClientsInStep

\* ------------------------------------------------------------------ inputs
\* the Connect messages a client tries: both registered users, a wrong password, an
\* unregistered name, an unsupported version
ConnectInputs ==
    {Connect(1, "cam", "mac"), Connect(1, "jen", "nej"), Connect(1, "cam", "nej"),
     Connect(1, "nobody", "mac"), Connect(2, "cam", "mac")}
\* the moves a client tries.  (0,0) is the sentinel, which no board of the model accepts.
\* From the start position (1,5)->(2,4) is a quiet move of player one and (4,2)->(3,3) a
\* move of player two that offers a capture with a recapture behind it.  The last two
\* are moves of player one's kings on EndgameBoard.  A client sends any of them whoever
\* owns the piece, so every one is also tried where it is illegal.
ClientMoves ==
    {Move(0, 0, Negative, Negative),
     Move(1, 5, Positive, Negative), Move(4, 2, Negative, Positive),
     Move(5, 1, Negative, Negative), Move(6, 2, Negative, Positive)}
\* the messages a client sends to a session: every message the handler of the session's
\* state tells apart, and one of those it treats alike
Inbound(c) ==
    CASE state[c] = UNAUTHENTICATED ->
            {Connect(1, "cam", "mac"), Connect(1, "nobody", "mac"), LogOut}
      [] state[c] = IN_QUEUE -> {LogOut, ReQueue}
      [] state[c] = PROCESSING_GAME_STATE -> {LogOut, MakeMove(Move(0, 0, Negative, Negative))}
      [] state[c] = USER_MOVE -> {MakeMove(m) : m \in ClientMoves} \cup {LogOut, ReQueue}
      [] state[c] = GAME_END ->
            {MakeMove(Move(0, 0, Negative, Negative)), ReQueue, LogOut, Connect(1, "cam", "mac")}

\* Game.apply_move will apply the move (lines 74-83 raise nothing)
EngineAccepts(c, move) ==
    /\ game[c] # NoGame
    /\ LET G == games[game[c]]
       IN /\ username[c] # None
          /\ username[G.player_one] # None
          /\ username[G.next_to_go] = username[c]
          /\ MoveIsValid(G.board, move,
                         IF username[c] = username[G.player_one] THEN Negative ELSE Positive,
                         username[c] = username[G.player_one])

Counts(c, msg) == state[c] = USER_MOVE /\ msg.type = "MakeMove" /\ EngineAccepts(c, msg.move)

\* auth_user will accept the Connect (lines 253-259 raise nothing)
LogsIn(c, msg) ==
    /\ state[c] = UNAUTHENTICATED
    /\ msg.type = "Connect"
    /\ msg.version \in supported_versions
    /\ msg.username \in DOMAIN db
    /\ db[msg.username].password = msg.password

\* ----------------------------------------------------------------- actions
\* a read callback delivers one complete message to session c
OnData(c, msg) ==
    /\ handle[c] = "active"
    /\ Counts(c, msg) => nmoves < MaxMoves
    /\ (username[c] # None /\ LogsIn(c, msg)) => nlogins < MaxLogins
    /\ \E w \in on_data(World, c, msg) :
          Commit(w, Event("data", c, msg),
                 IF Counts(c, msg) THEN nmoves + 1 ELSE nmoves,
                 IF username[c] # None /\ LogsIn(c, msg) THEN nlogins + 1 ELSE nlogins)

\* the state handler of an unauthenticated session is entered with a decoded message,
\* as lines 230-236 enter it once the debug log of lines 220-223 has not raised
OnUnauthenticated(c, msg) ==
    /\ handle[c] = "active"
    /\ state[c] = UNAUTHENTICATED
    /\ LogsIn(c, msg) => nlogins < MaxLogins
    /\ Commit(msg_on_unauthenticated(World, c, msg), Event("handler", c, msg), nmoves,
              IF LogsIn(c, msg) THEN nlogins + 1 ELSE nlogins)

\* a read callback reports end of file or an error on session c
OnError(c) ==
    /\ handle[c] = "active"
    /\ LET w == on_error(World, c)
       IN Commit([w EXCEPT !.handle[c] = IF @ = "active" THEN "eof" ELSE @],
                 Event("error", c, NoMessage), nmoves, nlogins)

\* the matchmaking timer fires
MakeMatch ==
    /\ Len(users) < 2 \/ Len(games) < MaxGames
    /\ \E w \in {make_match(World)} :
          Commit(w, Event("tick", 0, NoMessage), nmoves, nlogins)

Next ==
    \/ \E c \in Conn : \E msg \in Inbound(c) : OnData(c, msg)
    \/ \E c \in Conn : \E msg \in ConnectInputs \cup {LogOut} : OnUnauthenticated(c, msg)
    \/ \E c \in Conn : OnError(c)
    \/ MakeMatch

Spec == Init /\ [][Next]_vars

\* Game.apply_move called for a player c of a game in progress while it is the
\* opponent's turn.  No handler of the server makes this call (a session is in
\* USER_MOVE only while it is next to go), so the engine is entered directly.
ApplyMoveCall(c, move) ==
    /\ state[c] \in {PROCESSING_GAME_STATE, USER_MOVE}
    /\ game[c] # NoGame
    /\ games[game[c]].next_to_go # c
    /\ \E w \in Game_apply_move(World, game[c], move, c) :
          Commit(w, Event("engine", c, MakeMove(move)), nmoves, nlogins)

NextEngine ==
    \/ Next
    \/ \E c \in Conn : \E move \in ClientMoves : ApplyMoveCall(c, move)

SpecEngine == (InitQueued \/ InitRematch) /\ [][NextEngine]_vars

\* ------------------------------------------------- the queue taken on its own
\* the user each session logs in as when every session logs in as a different user,
\* in the order __main__ registers them
LobbyName == <<"cam", "jen", "kain", "andrei">>
\* the contents UserQueue.__users can have: no session is listed twice
Queues ==
    {q \in UNION {[1..n -> Conn] : n \in 0..NConn} :
        \A i, j \in 1..Len(q) : i # j => q[i] # q[j]}
Members(q) == {q[i] : i \in 1..Len(q)}

\* the ratings of test_queue.py (2, 4, 5), 6 for a tie between two pairs, and a rating
\* that is smallest_diff's initial value above 2
UnitRatings == {2, 4, 5, 6, 100000002}

\* UserQueue with sessions in it, as test_queue.py builds it.  The queued sessions are
\* logged in as different users.  A session outside the queue is logged in too (in
\* GAME_END, with no game), as its own user or, like a second login accepted while the
\* first plays, as cam.
InitQueueUnit ==
    \E q \in Queues, r \in [Conn -> UnitRatings] : \E second \in SUBSET (Conn \ Members(q)) :
        /\ state = [c \in Conn |-> IF c \in Members(q) THEN IN_QUEUE ELSE GAME_END]
        /\ username = [c \in Conn |-> IF c \in second THEN "cam" ELSE LobbyName[c]]
        /\ rating = r
        /\ game = [c \in Conn |-> NoGame]
        /\ handle = [c \in Conn |-> "active"]
        /\ users = q
        /\ games = <<>>
        /\ db = [u \in RegisteredUsers |-> [password |-> StartPassword[u], rating |-> StartRating[u]]]
        /\ sent = NothingSent
        /\ exc = "none"
        /\ ev = Event("init", 0, NoMessage)
        /\ nmoves = 0
        /\ nlogins = 0
        /\ ClientsInStep

\* the methods of UserQueue called on such a queue, as test_queue.py calls them
QueueCall(name) == [type |-> name]
EnqueueCall(c) ==
    /\ ev.kind = "init"
    /\ Commit(enqueue_user(World, c), Event("queue", c, QueueCall("enqueue_user")),
              nmoves, nlogins)
DequeueCall(c) ==
    /\ ev.kind = "init"
    /\ Commit(dequeue_user(World, c), Event("queue", c, QueueCall("dequeue_user")),
              nmoves, nlogins)
LocationCall(c) ==
    /\ ev.kind = "init"
    /\ LET r == UserQueue_location_of(World, c)
       IN Commit(r.w, Event("queue", c, [type |-> "location_of", index |-> r.index]),
                 nmoves, nlogins)
PopCall ==
    /\ ev.kind = "init"
    /\ LET r == pop_closest_pair(World)
       IN Commit(r.w, Event("queue", 0, [type |-> "pop_closest_pair", pair |-> r.pair]),
                 nmoves, nlogins)

NextQueue ==
    \/ \E c \in Conn : EnqueueCall(c)
    \/ \E c \in Conn : DequeueCall(c)
    \/ \E c \in Conn : LocationCall(c)
    \/ PopCall

SpecQueue == InitQueueUnit /\ [][NextQueue]_vars

\* ------------------------------------------------------ the matchmaking timer
\* what a user's rating has moved by since registration: nothing, one game won, or the
\* ten million games won that put it smallest_diff's initial value higher
LobbyGains == {0, 10, 100000000}

\* Some of the sessions have logged in, each as a different registered user, and wait
\* in the queue; the others have not logged in.  Nobody plays yet.
InitLobby ==
    \E q \in Queues, gain \in [Conn -> LobbyGains] :
        /\ \A c \in Conn \ Members(q) : gain[c] = 0
        /\ state = [c \in Conn |-> IF c \in Members(q) THEN IN_QUEUE ELSE UNAUTHENTICATED]
        /\ username = [c \in Conn |-> IF c \in Members(q) THEN LobbyName[c] ELSE None]
        /\ rating = [c \in Conn |-> IF c \in Members(q)
                                     THEN StartRating[LobbyName[c]] + gain[c] ELSE NoRating]
        /\ game = [c \in Conn |-> NoGame]
        /\ handle = [c \in Conn |-> "active"]
        /\ users = q
        /\ games = <<>>
        /\ db = [u \in RegisteredUsers |->
                    [password |-> StartPassword[u],
                     rating |-> IF \E c \in Conn : LobbyName[c] = u
                                THEN LET c == CHOOSE k \in Conn : LobbyName[k] = u
                                     IN StartRating[u] + gain[c]
                                ELSE StartRating[u]]]
        /\ sent = NothingSent
        /\ exc = "none"
        /\ ev = Event("init", 0, NoMessage)
        /\ nmoves = 0
        /\ nlogins = 0
        /\ ClientsInStep

\* the session whose turn it is sends a move
PlayMove(c, move) ==
    /\ state[c] = USER_MOVE
    /\ OnData(c, MakeMove(move))

\* the timer fires again and again while the players of the games it starts play:
\* no session joins or leaves
NextMatch ==
    \/ MakeMatch
    \/ \E c \in Conn : \E move \in ClientMoves : PlayMove(c, move)

\* a tick of the timer would change the state: ENABLED <<MakeMatch>>_vars
TickPending ==
    /\ Len(users) < 2 \/ Len(games) < MaxGames
    /\ LET w == make_match(World)
       IN <<w.state, w.username, w.rating, w.game, w.handle, w.users, w.games, w.db,
            w.sent, w.exc, Event("tick", 0, NoMessage)>>
          # <<state, username, rating, game, handle, users, games, db, sent, exc, ev>>

\* The timer is started with a period (register_matchmaker, line 104) and the loop runs
\* its callback every period: weak fairness of MakeMatch, WF_vars(MakeMatch), written
\* out with TickPending in the place of ENABLED <<MakeMatch>>_vars.
SpecMatch ==
    InitLobby /\ [][NextMatch]_vars /\ ([]<>(~TickPending) \/ []<><<MakeMatch>>_vars)

\* ------------------------------------------------- the codec taken on its own
\* every variable but the record of the last call
server_vars ==
    <<state, username, rating, game, handle, users, games, db, sent, exc, nmoves, nlogins,
      client_vars>>
\* the server as InitFresh leaves it; the calls below do not touch it
ServerIdle ==
    /\ state = [c \in Conn |-> UNAUTHENTICATED]
    /\ username = [c \in Conn |-> None]
    /\ rating = [c \in Conn |-> NoRating]
    /\ game = [c \in Conn |-> NoGame]
    /\ handle = [c \in Conn |-> "active"]
    /\ users = <<>>
    /\ games = <<>>
    /\ db = [u \in RegisteredUsers |-> [password |-> StartPassword[u], rating |-> StartRating[u]]]
    /\ sent = NothingSent
    /\ exc = "none"
    /\ nmoves = 0
    /\ nlogins = 0
    /\ ClientsInStep

Locations == {BoardLocation(u, p, o) : u \in BOOLEAN, p \in BOOLEAN, o \in BOOLEAN}
\* Board([loc] * 64), the boards of test_types.py and test_messages.py
UniformBoard(loc) == Cells([k \in 1..64 |-> loc])
\* the boards that are encoded: the uniform ones, every board with one cell that is not
\* BoardLocation(False, False, False) (each of the 64 cells, each combination of the
\* three flags), and three boards of a game
CodecBoards ==
    {UniformBoard(loc) : loc \in Locations}
    \cup {SetAt(UniformBoard(Empty), <<x, y>>, loc) : x \in 0..7, y \in 0..7, loc \in Locations}
    \cup {generate_game_start, translate_to_other_user(generate_game_start), EndgameBoard}
\* the boards and moves put into messages, and the values of the 4-byte fields
WireBoards ==
    {UniformBoard(BoardLocation(TRUE, FALSE, TRUE)), UniformBoard(Empty), generate_game_start,
     EndgameBoard}
WireMoves ==
    {Move(0, 0, Negative, Negative), Move(1, 2, Positive, Negative),
     Move(7, 7, Positive, Positive)}
WireInts == {0, 16, 1200, 2147483647}
WireNames == {"cam", "abcdefghijklmnop", "empty"}
\* the messages that are encoded: every class, with the field values above
CodecMessages ==
    {Connect(v, u, pw) : v \in {1, 255}, u \in WireNames, pw \in WireNames}
    \cup {InvalidLogin(Reasons[k]) : k \in 1..3}
    \cup {InvalidVersion(h, l) : h \in {1, 255}, l \in {0, 1}}
    \cup {QueuePosition(a, b, r) : a \in WireInts, b \in WireInts, r \in WireInts}
    \cup {GameStart(u, r) : u \in WireNames, r \in WireInts}
    \cup {YourTurn(m, b) : m \in WireMoves, b \in WireBoards}
    \cup {MakeMove(m) : m \in AllMoves}
    \cup {CompulsoryMove(m, b) : m \in WireMoves, b \in WireBoards}
    \cup {InvalidMove(m, b) : m \in WireMoves, b \in WireBoards}
    \cup {GameOver(w, n, o, m, b) : w \in {0, 1, 255}, n \in {0, 1210}, o \in {10, 1200},
                                    m \in WireMoves, b \in WireBoards}
    \cup {OpponentDisconnect, ReQueue, LogOut}
\* one message of every class, as test_messages.py has
SampleMessages ==
    {Connect(1, "cam", "mac"), InvalidLogin("AccountDoesNotExist"), InvalidVersion(1, 1),
     QueuePosition(1, 2, 1200), GameStart("jen", 16),
     YourTurn(Move(1, 2, Positive, Negative), generate_game_start),
     MakeMove(Move(2, 1, Negative, Positive)),
     CompulsoryMove(Move(1, 2, Positive, Negative), generate_game_start),
     InvalidMove(Move(1, 2, Positive, Negative), generate_game_start), OpponentDisconnect,
     GameOver(1, 1210, 1200, Move(1, 2, Positive, Negative), EndgameBoard), ReQueue, LogOut}
\* the type bytes tried in the place of a message's own: no type, every type of the
\* table, and two bytes above them
TypeBytes == {0, 14, 255} \cup {type[cls] : cls \in MessageTypes}
\* the buffers given to parse_and_decode of a message's class: every prefix of the
\* encoding (packed[:n]), the encoding with a byte after it, each of them with every
\* type byte in the place of the first byte
CodecBuffers ==
    UNION {LET packed == encode(m) \o <<0>>
           IN {[type |-> "Buffer", cls |-> m.type,
                data |-> [k \in 1..n |-> IF k = 1 THEN t ELSE packed[k]]] :
                    n \in 0..Len(packed), t \in TypeBytes} : m \in SampleMessages}

CodecInputs ==
    {[type |-> "Board", board |-> b] : b \in CodecBoards}
    \cup {[type |-> "Message", message |-> m] : m \in CodecMessages}
    \cup CodecBuffers

InitCodec ==
    /\ ServerIdle
    /\ \E input \in CodecInputs : ev = Event("init", 0, input)

\* Board.from_bytes(b.to_bytes()), as test_board does
BoardCall ==
    /\ ev.kind = "init"
    /\ ev.msg.type = "Board"
    /\ LET raw == Board_to_bytes(ev.msg.board)
       IN ev' = Event("codec", 0, [type |-> "Board", board |-> ev.msg.board, raw |-> raw,
                                   result |-> Board_from_bytes(raw)])
    /\ UNCHANGED server_vars

\* constructor.parse_and_decode(obj.encode()) and the encoding of its result, as
\* test_messages does (again is <<>> if nothing was decoded)
MessageCall ==
    /\ ev.kind = "init"
    /\ ev.msg.type = "Message"
    /\ LET raw == encode(ev.msg.message)
           r == parse_and_decode(ev.msg.message.type, raw)
       IN ev' = Event("codec", 0, [type |-> "Message", message |-> ev.msg.message,
                                   raw |-> raw, exc |-> r.exc, result |-> r.msg,
                                   again |-> IF r.exc = "none" THEN encode(r.msg) ELSE <<>>])
    /\ UNCHANGED server_vars

\* constructor.parse_and_decode(buffer)
ParseCall ==
    /\ ev.kind = "init"
    /\ ev.msg.type = "Buffer"
    /\ LET r == parse_and_decode(ev.msg.cls, ev.msg.data)
       IN ev' = Event("codec", 0, [type |-> "Buffer", cls |-> ev.msg.cls,
                                   data |-> ev.msg.data, exc |-> r.exc])
    /\ UNCHANGED server_vars

NextCodec == BoardCall \/ MessageCall \/ ParseCall

SpecCodec == InitCodec /\ [][NextCodec]_vars

\* ------------------------------------------------- the board taken on its own
\* the moves applied: from squares near the four edges, in the four directions, and
\* from squares outside the grid (Move accepts any integers)
UnitMoves ==
    {Move(x, y, xd, yd) : x \in {0, 1, 6, 7}, y \in {0, 1, 2, 5, 6, 7},
                          xd \in {Negative, Positive}, yd \in {Negative, Positive}}
    \cup {Move(x, y, xd, Positive) : x \in {-1, 8}, y \in {3, 8}, xd \in {Negative, Positive}}
    \cup {Move(3, y, xd, yd) : y \in {-1, 8}, xd \in {Negative, Positive},
                               yd \in {Negative, Positive}}
\* what the square one step away holds, and the square two steps away
UnitSingle ==
    {Empty, BoardLocation(TRUE, FALSE, TRUE), BoardLocation(TRUE, FALSE, FALSE),
     BoardLocation(TRUE, TRUE, FALSE), BoardLocation(FALSE, TRUE, TRUE)}
UnitDouble == {Empty, BoardLocation(TRUE, FALSE, FALSE), BoardLocation(FALSE, TRUE, TRUE)}
\* two pieces in the middle of the board that no move above starts from
Bystanders ==
    SetAt(SetAt(UniformBoard(Empty), <<3, 3>>, BoardLocation(TRUE, FALSE, TRUE)),
          <<4, 4>>, BoardLocation(TRUE, TRUE, FALSE))
\* the board with these locations on the three squares of the move (those inside the grid)
Place(b, p, loc) == IF InBounds(p) THEN SetAt(b, p, loc) ELSE b
UnitBoard(m, start, single, double) ==
    Place(Place(Place(Bystanders, after_double_move_pos(m), double),
                after_move_pos(m), single), pos(m), start)

\* a board, a move and the two other arguments of Board.apply_move, as test_apply_move
\* sets them up by assigning to squares of the board
InitBoardUnit ==
    /\ ServerIdle
    /\ \E m \in UnitMoves, start \in Locations, single \in UnitSingle, double \in UnitDouble,
          allowed_y_direction \in {Negative, Positive}, is_primary_player \in BOOLEAN :
          ev = Event("init", 0, [type |-> "apply_move", move |-> m,
                                 board |-> UnitBoard(m, start, single, double),
                                 allowed_y_direction |-> allowed_y_direction,
                                 is_primary_player |-> is_primary_player])

\* b.apply_move(move, allowed_y_direction, is_primary_player): whether it raised
\* InvalidMove, and the board it left
BoardApplyCall ==
    /\ ev.kind = "init"
    /\ ev.msg.type = "apply_move"
    /\ LET i == ev.msg
       IN ev' = Event("board", 0,
                  [type |-> "apply_move", move |-> i.move, board |-> i.board,
                   allowed_y_direction |-> i.allowed_y_direction,
                   is_primary_player |-> i.is_primary_player,
                   raised |-> ~MoveIsValid(i.board, i.move, i.allowed_y_direction,
                                           i.is_primary_player),
                   after |-> Board_apply_move(i.board, i.move, i.allowed_y_direction,
                                              i.is_primary_player)])
    /\ UNCHANGED server_vars

NextBoard == BoardApplyCall

SpecBoard == InitBoardUnit /\ [][NextBoard]_vars

\* ------------------------------------------------- the reads taken byte by byte
\* how many messages a client writes before the server reads them in one buffer
MaxBatch == 2
\* the messages a client writes back to back.  The byte of Move(0,3,-,-) is 12, the
\* type of LogOut; the byte of Move(1,5,+,-), a move of the start position, is no type.
StreamMessages ==
    {LogOut, ReQueue, MakeMove(Move(0, 3, Negative, Negative)),
     MakeMove(Move(1, 5, Positive, Negative)), Connect(1, "cam", "mac")}
RECURSIVE Concat(_)
Concat(parts) == IF parts = <<>> THEN <<>> ELSE encode(Head(parts)) \o Concat(Tail(parts))
\* one read of k complete messages, k = 1..MaxBatch
Batches ==
    UNION {{[type |-> "Bytes", parts |-> parts, data |-> Concat(parts)] :
                parts \in [1..k -> StreamMessages]} : k \in 1..MaxBatch}
\* one read that does not begin with a complete message of a known type: nothing, a
\* byte that is no type, a MakeMove without its move, a Connect without its last byte
Broken ==
    {[type |-> "Bytes", parts |-> <<>>, data |-> d] :
        d \in {<<>>, <<0>>, <<14>>, <<255>>, <<type.MakeMove>>,
               SubSeq(encode(Connect(1, "cam", "mac")), 1, calc_size.Connect)}}
\* the moves of a read the engine applied: each of them changed the board of a game
Applied(W, w) == Cardinality({g \in 1..Len(W.games) : w.games[g].board # W.games[g].board})

\* a read callback delivers the buffer of one read to session c
OnRead(c, buf) ==
    /\ handle[c] = "active"
    /\ \E r \in Session_on_data(World, c, buf.data, <<>>) :
          /\ nmoves + Applied(World, r.w) <= MaxMoves
          /\ Commit(r.w, Event("read", c, buf @@ [handled |-> r.handled, calls |-> r.calls]),
                    nmoves + Applied(World, r.w), nlogins)

NextStream == \E c \in Conn : \E buf \in Batches \cup Broken : OnRead(c, buf)

SpecStream == (InitQueued \/ InitRematch) /\ [][NextStream]_vars

\* ------------------------------------------------------ client and server
\* how many messages can wait in one direction of a connection
MaxFlight == 3
\* how many clients can have closed when a user interrupts one more
MaxSignals == 1
\* Client.shutdown in protocol state ps: LogOut unless UNAUTHENTICATED, then __close.
\* The protocol state stays what it was.
Client_shutdown(ps) ==
    [protocol_state |-> ps, waiting |-> "none",
     send |-> IF ps # UNAUTHENTICATED THEN <<LogOut>> ELSE <<>>, close |-> TRUE]
\* the client goes on in protocol state ps, blocked on w
Client_continue(ps, w) == [protocol_state |-> ps, waiting |-> w, send |-> <<>>, close |-> FALSE]
\* the dispatch of Client.__on_data and the state handlers, up to the point where the
\* handler returns or asks the user.  On InvalidLogin the handler sets UNAUTHENTICATED
\* and calls self.__ui.request_credentials(); Interface has no such method (its method
\* is request_creds), so AttributeError leaves the callback there and no Connect is sent.
Client_on_message(ps, msg) ==
    CASE ps = IN_QUEUE ->
            (CASE msg.type = "InvalidLogin" -> Client_continue(UNAUTHENTICATED, "none")
               [] msg.type = "QueuePosition" -> Client_continue(IN_QUEUE, "none")
               [] msg.type = "GameStart" -> Client_continue(PROCESSING_GAME_STATE, "none")
               [] OTHER -> Client_shutdown(ps))
      [] ps = PROCESSING_GAME_STATE ->
            (CASE msg.type \in {"YourTurn", "InvalidMove"} -> Client_continue(USER_MOVE, "move")
               [] msg.type = "CompulsoryMove" -> Client_continue(PROCESSING_GAME_STATE, "none")
               [] msg.type \in {"GameOver", "OpponentDisconnect"} ->
                      Client_continue(GAME_END, "replay")
               [] OTHER -> Client_shutdown(ps))
      [] ps = USER_MOVE ->
            IF msg.type = "OpponentDisconnect" THEN Client_continue(GAME_END, "replay")
            ELSE Client_shutdown(ps)
      [] OTHER -> Client_shutdown(ps)

\* the client of connection c goes to what r says
ClientStep(c, r, what) ==
    /\ Len(up[c]) + Len(r.send) <= MaxFlight
    /\ protocol_state' = [protocol_state EXCEPT ![c] = r.protocol_state]
    /\ waiting' = [waiting EXCEPT ![c] = r.waiting]
    /\ closed' = [closed EXCEPT ![c] = r.close]
    /\ up' = [up EXCEPT ![c] = @ \o r.send]
    /\ UNCHANGED <<state, username, rating, game, handle, users, games, db, sent, exc,
                   nmoves, nlogins>>
    /\ ev' = Event("client", c, what)

\* Client.__on_connection_start without an error: Connect is sent, then IN_QUEUE
ClientStart(c, msg) ==
    /\ ~closed[c]
    /\ waiting[c] = "start"
    /\ ClientStep(c, [protocol_state |-> IN_QUEUE, waiting |-> "none", send |-> <<msg>>,
                      close |-> FALSE], msg)
    /\ down' = down
\* Client.__on_data with one message the session wrote
ClientRead(c) ==
    /\ ~closed[c]
    /\ waiting[c] = "none"
    /\ down[c] # <<>>
    /\ ClientStep(c, Client_on_message(protocol_state[c], Head(down[c])), Head(down[c]))
    /\ down' = [down EXCEPT ![c] = Tail(@)]
\* get_move returns: MakeMove is sent, then PROCESSING_GAME_STATE
ClientMove(c, move) ==
    /\ ~closed[c]
    /\ waiting[c] = "move"
    /\ ClientStep(c, [protocol_state |-> PROCESSING_GAME_STATE, waiting |-> "none",
                      send |-> <<MakeMove(move)>>, close |-> FALSE], MakeMove(move))
    /\ down' = down
\* prompt_play_again returns: IN_QUEUE and ReQueue, or shutdown
ClientPlayAgain(c, again) ==
    /\ ~closed[c]
    /\ waiting[c] = "replay"
    /\ ClientStep(c, IF again
                     THEN [protocol_state |-> IN_QUEUE, waiting |-> "none",
                           send |-> <<ReQueue>>, close |-> FALSE]
                     ELSE Client_shutdown(protocol_state[c]),
                  IF again THEN ReQueue ELSE LogOut)
    /\ down' = down
\* Client.__on_signal, and __on_data with end of file once the session has shut the
\* connection down: shutdown
ClientShutdown(c) ==
    /\ ~closed[c]
    /\ Cardinality({d \in Conn : closed[d]}) < MaxSignals
    /\ waiting[c] = "none"
    /\ handle[c] = "active" \/ down[c] = <<>>
    /\ ClientStep(c, Client_shutdown(protocol_state[c]), NoMessage)
    /\ down' = down

\* what a callback of the server wrote reaches the clients that have not closed
Deliver(w) ==
    /\ \A c \in Conn : Len(down[c]) + Len(w.sent[c]) <= MaxFlight
    /\ down' = [c \in Conn |-> IF closed[c] THEN down[c] ELSE down[c] \o w.sent[c]]
\* the session of c reads the message its client wrote first
ServerRead(c) ==
    /\ handle[c] = "active"
    /\ up[c] # <<>>
    /\ LET msg == Head(up[c])
       IN /\ Counts(c, msg) => nmoves < MaxMoves
          /\ \E w \in on_data(World, c, msg) :
                /\ CommitServer(w, Event("data", c, msg),
                                IF Counts(c, msg) THEN nmoves + 1 ELSE nmoves, nlogins)
                /\ Deliver(w)
    /\ up' = [up EXCEPT ![c] = Tail(@)]
    /\ UNCHANGED <<protocol_state, waiting, closed>>
\* the state handler of an unauthenticated session is entered with the message its
\* client wrote first, as OnUnauthenticated enters it
ServerHandler(c) ==
    /\ handle[c] = "active"
    /\ state[c] = UNAUTHENTICATED
    /\ up[c] # <<>>
    /\ LET msg == Head(up[c])
       IN /\ LogsIn(c, msg) => nlogins < MaxLogins
          /\ \E w \in {msg_on_unauthenticated(World, c, msg)} :
                /\ CommitServer(w, Event("handler", c, msg), nmoves,
                                IF LogsIn(c, msg) THEN nlogins + 1 ELSE nlogins)
                /\ Deliver(w)
    /\ up' = [up EXCEPT ![c] = Tail(@)]
    /\ UNCHANGED <<protocol_state, waiting, closed>>
\* the session of c reads end of file after its client closed
ServerEOF(c) ==
    /\ handle[c] = "active"
    /\ closed[c]
    /\ up[c] = <<>>
    /\ \E w \in {on_error(World, c)} :
          /\ CommitServer([w EXCEPT !.handle[c] = IF @ = "active" THEN "eof" ELSE @],
                          Event("error", c, NoMessage), nmoves, nlogins)
          /\ Deliver(w)
    /\ UNCHANGED <<protocol_state, waiting, closed, up>>
\* the matchmaking timer fires
Tick ==
    /\ Len(users) < 2 \/ Len(games) < MaxGames
    /\ \E w \in {make_match(World)} :
          /\ CommitServer(w, Event("tick", 0, NoMessage), nmoves, nlogins)
          /\ Deliver(w)
    /\ UNCHANGED <<protocol_state, waiting, closed, up>>

\* the credentials a user gives its client
ClientLogins == {Connect(1, "cam", "mac"), Connect(1, "nobody", "mac")}
\* the moves a user gives its client: the sentinel, which no board accepts, and the
\* move of player one that decides the game on EndgameBoard
UserMoves == {Move(0, 0, Negative, Negative), Move(5, 1, Negative, Negative)}

NextLink ==
    \/ \E c \in Conn : \E msg \in ClientLogins : ClientStart(c, msg)
    \/ \E c \in Conn : ClientRead(c)
    \/ \E c \in Conn : \E move \in UserMoves : ClientMove(c, move)
    \/ \E c \in Conn : \E again \in BOOLEAN : ClientPlayAgain(c, again)
    \/ \E c \in Conn : ClientShutdown(c)
    \/ \E c \in Conn : ServerRead(c)
    \/ \E c \in Conn : ServerHandler(c)
    \/ \E c \in Conn : ServerEOF(c)
    \/ Tick

SpecLink == (InitFresh \/ InitEndgame) /\ [][NextLink]_vars

\* ------------------------------------------------- the middle of a game
\* a board given by the squares of player one's men and kings and of player two's
PositionOf(one_men, one_kings, two_men, two_kings) ==
    Cells([k \in 1..64 |->
        LET p == <<(k - 1) \div 8, (k - 1) % 8>>
        IN IF p \in one_men THEN BoardLocation(TRUE, FALSE, TRUE)
           ELSE IF p \in one_kings THEN BoardLocation(TRUE, TRUE, TRUE)
           ELSE IF p \in two_men THEN BoardLocation(TRUE, FALSE, FALSE)
           ELSE IF p \in two_kings THEN BoardLocation(TRUE, TRUE, FALSE)
           ELSE Empty])

\* Positions in the middle of a game between cam (player one, session 1) and jen
\* (session 2), each with the session that is to move.  Play-outs of game.py from
\* generate_game_start with legal moves drawn at random reached them, after 22, 33, 59,
\* 39, 30 and 30 accepted moves.  In the first, (3,3)->(2,4) by jen is answered by a
\* capture of cam's, a capture and a second capture of the same man of jen's, while
\* another man of cam's can capture.  In the second, (1,3)->(0,2) by cam is followed by
\* two captures of jen's king and a capture of cam's that ends the game.  In the third,
\* (2,6)->(3,5) by jen is followed by two captures of cam's king, which end the game.
\* In the fourth, (2,2)->(3,1) by cam is followed by one capture of jen's, after which
\* jen's king could capture as well.  In the last two, (6,2)->(5,1) and (4,2)->(3,1) by
\* cam leave a player to move whose only piece cannot move.
Midgames ==
    {[turn |-> 2,
      board |-> PositionOf({<<0, 6>>, <<1, 1>>, <<1, 5>>, <<3, 5>>, <<6, 6>>, <<7, 5>>}, {},
                           {<<0, 0>>, <<2, 2>>, <<3, 1>>, <<3, 3>>, <<7, 1>>}, {})],
     [turn |-> 1,
      board |-> PositionOf({<<0, 6>>, <<1, 3>>, <<1, 7>>, <<2, 2>>, <<4, 2>>, <<4, 4>>}, {},
                           {}, {<<5, 5>>})],
     [turn |-> 2,
      board |-> PositionOf({}, {<<4, 6>>}, {<<1, 5>>}, {<<2, 6>>})],
     [turn |-> 1,
      board |-> PositionOf({<<0, 2>>, <<2, 2>>, <<6, 6>>}, {<<1, 1>>},
                           {<<0, 0>>}, {<<4, 2>>})],
     [turn |-> 1,
      board |-> PositionOf({<<1, 5>>, <<4, 6>>, <<5, 7>>, <<6, 6>>}, {<<0, 2>>, <<6, 2>>},
                           {<<7, 5>>}, {})],
     [turn |-> 1,
      board |-> PositionOf({<<4, 2>>, <<7, 1>>}, {},
                           {<<1, 1>>, <<2, 4>>, <<4, 0>>, <<6, 0>>, <<7, 3>>}, {})]}

InitMidgame ==
    \E m \in Midgames :
        /\ state = [c \in Conn |-> IF c = m.turn THEN USER_MOVE
                                   ELSE IF c \in {1, 2} THEN PROCESSING_GAME_STATE
                                   ELSE UNAUTHENTICATED]
        /\ username = [c \in Conn |-> CASE c = 1 -> "cam" [] c = 2 -> "jen" [] OTHER -> None]
        /\ rating = [c \in Conn |-> CASE c = 1 -> StartRating["cam"]
                                      [] c = 2 -> StartRating["jen"]
                                      [] OTHER -> NoRating]
        /\ game = [c \in Conn |-> IF c \in {1, 2} THEN 1 ELSE NoGame]
        /\ handle = [c \in Conn |-> "active"]
        /\ users = <<>>
        /\ games = <<[player_one |-> 1, player_two |-> 2, board |-> m.board,
                      next_to_go |-> m.turn]>>
        /\ db = [u \in RegisteredUsers |-> [password |-> StartPassword[u], rating |-> StartRating[u]]]
        /\ sent = NothingSent
        /\ exc = "none"
        /\ ev = Event("init", 0, NoMessage)
        /\ nmoves = 0
        /\ nlogins = 0
        /\ ClientsInStep

\* the players go on with the game: the one asked to move sends a move the engine
\* accepts, whichever it is, or the sentinel, which no board accepts
MidgameMove(c, move) ==
    /\ move = Move(0, 0, Negative, Negative) \/ EngineAccepts(c, move)
    /\ PlayMove(c, move)

NextMidgame == \E c \in Conn : \E move \in AllMoves : MidgameMove(c, move)

SpecMidgame == InitMidgame /\ [][NextMidgame]_vars

\* --------------------------------------------------------------- properties
\* The properties are about one callback: they read the state it started in (unprimed),
\* the state it left (primed), and its record in ev', sent' and exc'.
CountType(seq, t) == Cardinality({i \in 1..Len(seq) : seq[i].type = t})
OfType(seq, t) == SelectSeq(seq, LAMBDA m : m.type = t)

\* the read callback decoded a message of type t
DataStep(t) == ev'.kind = "data" /\ ev'.msg.type = t
\* a session in USER_MOVE sent MakeMove
MoveStep == DataStep("MakeMove") /\ state[ev'.conn] = USER_MOVE
\* ... and the engine accepted the move
AcceptedMoveStep == MoveStep /\ EngineAccepts(ev'.conn, ev'.msg.move)

\* session c is in a game
Playing(c) == state[c] \in {PROCESSING_GAME_STATE, USER_MOVE} /\ game[c] # NoGame
\* the other player of game g
Opponent(g, c) == IF games[g].player_one = c THEN games[g].player_two ELSE games[g].player_one
\* the cells of board b that hold a piece of player one (TRUE) or of player two (FALSE)
Pieces(b, side) == {k \in 1..64 : b[k].used /\ b[k].owner = side}
\* the board of game G as session c is shown it
View(G, c) == IF G.player_one = c THEN G.board ELSE translate_to_other_user(G.board)
\* the y direction the men of session c move in
SeatDirection(G, c) == IF G.player_one = c THEN Negative ELSE Positive

\* C1: after an accepted MakeMove from a session in USER_MOVE, exactly one of two
\* outcomes holds: both players were sent GameOver and are in GAME_END; or exactly one
\* YourTurn was sent, to the session that is now next to go, which is in USER_MOVE while
\* the other is in PROCESSING_GAME_STATE, and the YourTurn carries the last move applied
\* (the last compulsory move if there was one, else the player's move).
C1_Outcome ==
    LET c == ev'.conn
        g == game[c]
        o == Opponent(g, c)
        n == games'[g].next_to_go
        w == Opponent(g, n)
        cms == OfType(sent'[n], "CompulsoryMove")
        last == IF Len(cms) = 0 THEN ev'.msg.move ELSE cms[Len(cms)].move
        over == \A p \in {c, o} : CountType(sent'[p], "GameOver") = 1 /\ state'[p] = GAME_END
        turn == /\ CountType(sent'[n], "YourTurn") = 1
                /\ CountType(sent'[w], "YourTurn") = 0
                /\ OfType(sent'[n], "YourTurn")[1].last_move = last
                /\ state'[n] = USER_MOVE
                /\ state'[w] = PROCESSING_GAME_STATE
    IN (over /\ ~turn) \/ (turn /\ ~over)
C1_AcceptedMoveOutcome == [][AcceptedMoveStep => C1_Outcome]_vars

\* C2: when a session in USER_MOVE, whose turn it is, sends a MakeMove the board rejects,
\* it is sent exactly one InvalidMove with that move and its own view of the board, it
\* stays in USER_MOVE with the connection open, the game (board and next to go) is
\* unchanged, and every other session keeps its state and is sent nothing.
C2_Rejected ==
    /\ MoveStep
    /\ game[ev'.conn] # NoGame
    /\ LET c == ev'.conn
           G == games[game[c]]
       IN /\ G.next_to_go = c
          /\ ~MoveIsValid(G.board, ev'.msg.move, SeatDirection(G, c), G.player_one = c)
C2_Answer ==
    LET c == ev'.conn
        G == games[game[c]]
    IN /\ sent'[c] = <<InvalidMove(ev'.msg.move, View(G, c))>>
       /\ state'[c] = USER_MOVE
       /\ handle'[c] = "active"
       /\ game'[c] = game[c]
       /\ games' = games
       /\ \A o \in Conn \ {c} : state'[o] = state[o] /\ sent'[o] = <<>>
C2_InvalidMoveEcho == [][C2_Rejected => C2_Answer]_vars
\* a rejected move was answered
C2_Witness ==
    /\ ev.kind = "data"
    /\ ev.msg.type = "MakeMove"
    /\ state[ev.conn] = USER_MOVE
    /\ Len(sent[ev.conn]) = 1
    /\ sent[ev.conn][1].type = "InvalidMove"
    /\ sent[ev.conn][1].move = ev.msg.move

\* C3: Game.apply_move called for a player of a game who is not next to go is rejected
\* whatever the move, also when the board would accept the move for that seat: it
\* raises InvalidMoveException, the games (boards and next to go) are as before, no
\* session changes its state and nothing is sent to any session.
C3_OutOfTurn ==
    /\ ev'.kind = "engine"
    /\ Playing(ev'.conn)
    /\ games[game[ev'.conn]].next_to_go # ev'.conn
C3_OutOfTurnRejected ==
    [][C3_OutOfTurn =>
          /\ exc' = "InvalidMoveException"
          /\ games' = games
          /\ state' = state
          /\ sent' = NothingSent]_vars
\* an out-of-turn call was rejected although the board accepts the move for that seat
\* (the case the code gets right)
C3_Witness ==
    /\ ev.kind = "engine"
    /\ exc = "InvalidMoveException"
    /\ LET G == games[game[ev.conn]]
       IN MoveIsValid(G.board, ev.msg.move, SeatDirection(G, ev.conn), G.player_one = ev.conn)

\* C4: whenever a YourTurn is sent, the session it is sent to has no capturing move on
\* the board of its game: no piece of its side has an opposing piece diagonally adjacent,
\* in a direction the piece may move, with an empty square of the board right behind it.
CanCapture(b, side) ==
    \E x \in 0..7, y \in 0..7, dx \in {-1, 1}, dy \in {-1, 1} :
        LET piece == At(b, <<x, y>>)
            mid == <<x + dx, y + dy>>
            far == <<x + 2 * dx, y + 2 * dy>>
        IN /\ piece.used
           /\ piece.owner = side
           /\ piece.promoted \/ dy = (IF side THEN -1 ELSE 1)
           /\ InBounds(mid)
           /\ InBounds(far)
           /\ At(b, mid).used
           /\ At(b, mid).owner # side
           /\ ~At(b, far).used
C4_NoCaptureLeft ==
    [][\A c \in Conn :
          CountType(sent'[c], "YourTurn") > 0 =>
              /\ game'[c] # NoGame
              /\ ~CanCapture(games'[game'[c]].board, games'[game'[c]].player_one = c)]_vars
\* a YourTurn was sent after the engine had played a compulsory move
C4_Witness ==
    \E c \in Conn :
        /\ CountType(sent[c], "YourTurn") = 1
        /\ CountType(sent[c], "CompulsoryMove") > 0
        /\ state[c] = USER_MOVE

\* the game of the accepted move is decided: one side has no piece left after it
Decided == \E side \in BOOLEAN : Pieces(games'[game[ev'.conn]].board, side) = {}
\* the players of that game: the one whose side has pieces left, and the other one
Winner ==
    LET G == games'[game[ev'.conn]]
    IN IF Pieces(G.board, FALSE) = {} THEN G.player_one ELSE G.player_two
Loser == Opponent(game[ev'.conn], Winner)

\* C5: a game is decided exactly when, after an accepted move and the compulsory moves
\* that follow it, one side has no pieces: then the player with pieces is sent one
\* GameOver with the won flag set, the other one GameOver with the flag clear, both are
\* in GAME_END and neither is sent YourTurn; otherwise no GameOver is sent at all.
C5_Announced ==
    /\ \A p \in {Winner, Loser} :
          /\ CountType(sent'[p], "GameOver") = 1
          /\ OfType(sent'[p], "GameOver")[1].you_won = (p = Winner)
          /\ CountType(sent'[p], "YourTurn") = 0
          /\ state'[p] = GAME_END
C5_DecidedExactlyWhen ==
    [][IF AcceptedMoveStep /\ Decided
       THEN C5_Announced
       ELSE \A c \in Conn : CountType(sent'[c], "GameOver") = 0]_vars

\* C6: when a game is decided, the winner's rating becomes old + 10 and the loser's
\* old - 10: each is sent a GameOver with its old and its new rating, the database and
\* the session hold the new rating, and the sum of the two ratings is unchanged.
C6_Rated(p, change) ==
    /\ CountType(sent'[p], "GameOver") = 1
    /\ OfType(sent'[p], "GameOver")[1].old_rating = rating[p]
    /\ OfType(sent'[p], "GameOver")[1].new_rating = rating[p] + change
    /\ rating'[p] = rating[p] + change
    /\ db'[username[p]].rating = rating[p] + change
C6_RatingUpdate ==
    [][(AcceptedMoveStep /\ Decided) =>
          /\ C6_Rated(Winner, 10)
          /\ C6_Rated(Loser, -10)
          /\ rating'[Winner] + rating'[Loser] = rating[Winner] + rating[Loser]]_vars

\* C7: when a session in PROCESSING_GAME_STATE or USER_MOVE, in a game with an opponent
\* that is in one of these states too, sends LogOut or its connection closes, the
\* opponent is sent exactly one OpponentDisconnect and moves to GAME_END, and the
\* leaving session ends in UNAUTHENTICATED, whoever was next to go.
C7_Leaves ==
    /\ DataStep("LogOut") \/ ev'.kind = "error"
    /\ Playing(ev'.conn)
    /\ LET o == Opponent(game[ev'.conn], ev'.conn)
       IN Playing(o) /\ game[o] = game[ev'.conn]
C7_OpponentNotified ==
    [][C7_Leaves =>
          LET c == ev'.conn
              o == Opponent(game[c], c)
          IN /\ CountType(sent'[o], "OpponentDisconnect") = 1
             /\ state'[o] = GAME_END
             /\ state'[c] = UNAUTHENTICATED]_vars
\* a player left a game and the opponent was told
C7_Witness ==
    /\ ev.kind \in {"data", "error"}
    /\ state[ev.conn] = UNAUTHENTICATED
    /\ \E o \in Conn \ {ev.conn} :
          /\ sent[o] = <<OpponentDisconnect>>
          /\ state[o] = GAME_END

\* c and o were the two players of a game, and o is no longer in it: the game has ended
\* for o, which was then in GAME_END, and o has not been put into a game with c again
FormerPlayers(c, o) ==
    /\ c # o
    /\ \E g \in 1..Len(games) : {games[g].player_one, games[g].player_two} = {c, o}
    /\ ~(Playing(c) /\ Playing(o) /\ game[c] = game[o])
    /\ state[o] \in {GAME_END, IN_QUEUE, UNAUTHENTICATED}
    /\ state[c] \in {GAME_END, IN_QUEUE, UNAUTHENTICATED}

\* C8: once a game has ended, an event on one of its former players (a message it sends,
\* its connection closing) sends nothing to the other, leaves the other's protocol state
\* alone and does not close the other's connection.
C8_Decoupled ==
    [][\A o \in Conn :
          (ev'.kind \in {"data", "handler", "error"} /\ FormerPlayers(ev'.conn, o)) =>
              /\ sent'[o] = <<>>
              /\ state'[o] = state[o]
              /\ handle'[o] = handle[o]]_vars

\* the store accepts the credentials of Connect message m
Accepts(m) == m.username \in DOMAIN db /\ db[m.username].password = m.password
\* a session of that name is queued
Queued(name) == \E i \in 1..Len(users) : username[users[i]] = name

\* C9: when an UNAUTHENTICATED session receives Connect with a supported version and
\* credentials the store accepts, and no session of that name is queued, the session is
\* appended to the queue, moves to IN_QUEUE and is sent exactly one QueuePosition with
\* the queue's new length, its 1-based place in the queue and the stored rating.
C9_Login ==
    [][(/\ DataStep("Connect")
        /\ state[ev'.conn] = UNAUTHENTICATED
        /\ ev'.msg.version \in supported_versions
        /\ Accepts(ev'.msg)
        /\ ~Queued(ev'.msg.username)) =>
          /\ users' = Append(users, ev'.conn)
          /\ state'[ev'.conn] = IN_QUEUE
          /\ sent'[ev'.conn] = <<QueuePosition(Len(users) + 1, Len(users) + 1,
                                               db[ev'.msg.username].rating)>>]_vars

\* the reason InvalidLogin has to carry for Connect message m
Reason(m) ==
    IF m.username \notin DOMAIN db THEN "AccountDoesNotExist"
    ELSE IF db[m.username].password # m.password THEN "InvalidPassword"
    ELSE "AlreadyLoggedIn"

\* C10: a Connect with a supported version that cannot be accepted (unregistered name,
\* wrong password, or name already queued) is answered with exactly one InvalidLogin
\* carrying the matching reason; the session stays UNAUTHENTICATED with the connection
\* open and the queue is unchanged.
C10_Refused ==
    [][(/\ ev'.kind \in {"data", "handler"}
        /\ ev'.msg.type = "Connect"
        /\ state[ev'.conn] = UNAUTHENTICATED
        /\ ev'.msg.version \in supported_versions
        /\ ~Accepts(ev'.msg) \/ Queued(ev'.msg.username)) =>
          /\ sent'[ev'.conn] = <<InvalidLogin(Reason(ev'.msg))>>
          /\ state'[ev'.conn] = UNAUTHENTICATED
          /\ handle'[ev'.conn] = "active"
          /\ users' = users]_vars

\* session c is logged in
LoggedIn(c) == state[c] \in {IN_QUEUE, PROCESSING_GAME_STATE, USER_MOVE, GAME_END}

\* C11: in every reachable state no two distinct logged-in sessions (IN_QUEUE,
\* PROCESSING_GAME_STATE, USER_MOVE or GAME_END) carry the same username: a Connect for
\* a username that is logged in anywhere is never accepted into a second session.
C11_UniqueLogin ==
    \A a, b \in Conn : (a # b /\ LoggedIn(a) /\ LoggedIn(b)) => username[a] # username[b]

\* the server's transition table has a row for message type t in state s; MakeMove in
\* GAME_END has none but is tolerated
HasRow(s, t) ==
    CASE s = UNAUTHENTICATED -> t = "Connect"
      [] s = IN_QUEUE -> t = "LogOut"
      [] s = PROCESSING_GAME_STATE -> t = "LogOut"
      [] s = USER_MOVE -> t \in {"MakeMove", "LogOut"}
      [] s = GAME_END -> t \in {"ReQueue", "LogOut"}
Tolerated(s, t) == s = GAME_END /\ t = "MakeMove"
\* after the step, session c is a player of a game some other session is still playing
InLiveGameAfter(c) ==
    \E o \in Conn \ {c} :
        /\ state'[o] \in {PROCESSING_GAME_STATE, USER_MOVE}
        /\ game'[o] # NoGame
        /\ c \in {games'[game'[o]].player_one, games'[game'[o]].player_two}

\* C12: a message for which the table has no row in the session's state, MakeMove in
\* GAME_END excepted, ends with the session forcibly disconnected: its transport is
\* shut down, its state is UNAUTHENTICATED, it is not in the queue, it holds no game and
\* no session still plays a game with it.
C12_Violation ==
    /\ ev'.kind \in {"data", "handler"}
    /\ ~HasRow(state[ev'.conn], ev'.msg.type)
    /\ ~Tolerated(state[ev'.conn], ev'.msg.type)
C12_ForcedDisconnect ==
    [][C12_Violation =>
          /\ state'[ev'.conn] = UNAUTHENTICATED
          /\ handle'[ev'.conn] = "shutdown"
          /\ \A i \in 1..Len(users') : users'[i] # ev'.conn
          /\ game'[ev'.conn] = NoGame
          /\ ~InLiveGameAfter(ev'.conn)]_vars
\* a session that was logged in was disconnected for a message without a row
C12_Witness ==
    /\ ev.kind = "data"
    /\ ev.msg.type \in {"ReQueue", "Connect", "MakeMove"}
    /\ exc = "none"
    /\ state[ev.conn] = UNAUTHENTICATED
    /\ handle[ev.conn] = "shutdown"

C14_ReQueued ==
    [][(DataStep("ReQueue") /\ state[ev'.conn] = GAME_END) =>
          /\ state'[ev'.conn] = IN_QUEUE
          /\ users' = Append(users, ev'.conn)
          /\ sent'[ev'.conn] = <<QueuePosition(Len(users) + 1, Len(users) + 1,
                                               rating[ev'.conn])>>]_vars
\* a session re-queued after GameOver with its new rating
C14_Witness ==
    /\ ev.kind = "data"
    /\ ev.msg.type = "ReQueue"
    /\ state[ev.conn] = IN_QUEUE
    /\ Len(sent[ev.conn]) = 1
    /\ sent[ev.conn][1].type = "QueuePosition"
    /\ sent[ev.conn][1].rating = 1210

\* the matchmaking timer created a game in this step
GameMade == ev'.kind = "tick" /\ Len(games') = Len(games) + 1
Sentinel == Move(0, 0, Negative, Negative)

\* C15: when a game is created the player with the lower rating (either one for equal
\* ratings) is player one and next to go, both players come from the queue, and player
\* one alone is sent a YourTurn, exactly one, carrying the sentinel move and the start
\* board.  As long as no move has been made on the board of a game, its player two is
\* sent a YourTurn only by an accepted MakeMove of its player one.
C15_Seats ==
    LET G == games'[Len(games')]
        p1 == G.player_one
        p2 == G.player_two
    IN /\ p1 # p2
       /\ {p1, p2} \subseteq Members(users)
       /\ rating[p1] <= rating[p2]
       /\ G.next_to_go = p1
       /\ G.board = generate_game_start
       /\ OfType(sent'[p1], "YourTurn") = <<YourTurn(Sentinel, generate_game_start)>>
       /\ \A c \in Conn \ {p1} : CountType(sent'[c], "YourTurn") = 0
C15_SecondWaits ==
    \A c \in Conn :
        (/\ Playing(c)
         /\ games[game[c]].player_two = c
         /\ games[game[c]].board = generate_game_start
         /\ CountType(sent'[c], "YourTurn") > 0) =>
            AcceptedMoveStep /\ ev'.conn = games[game[c]].player_one
C15_FirstMove == [][(GameMade => C15_Seats) /\ C15_SecondWaits]_vars
\* a game was created between two sessions of equal rating
C15_Witness ==
    /\ ev.kind = "tick"
    /\ Len(games) > 0
    /\ LET G == games[Len(games)]
       IN /\ rating[G.player_one] = rating[G.player_two]
          /\ state[G.player_one] = USER_MOVE
          /\ Len(sent[G.player_one]) = 2
\* player two was sent its first YourTurn after player one's first move
C15_WitnessSecond ==
    /\ ev.kind = "data"
    /\ ev.msg.type = "MakeMove"
    /\ game[ev.conn] # NoGame
    /\ games[game[ev.conn]].player_one = ev.conn
    /\ CountType(sent[games[game[ev.conn]].player_two], "YourTurn") = 1

\* C16: when the timer pairs two sessions, both were IN_QUEUE, each is sent exactly one
\* GameStart, as the first message of the step and so before every YourTurn of the
\* game, naming the other's username and rating; both have left IN_QUEUE, player two
\* for PROCESSING_GAME_STATE and player one, through it, for USER_MOVE; both hold the
\* new game.  No other step sends a GameStart, and no other session is sent one.
C16_Started ==
    LET g == Len(games')
        p1 == games'[g].player_one
        p2 == games'[g].player_two
    IN /\ state[p1] = IN_QUEUE /\ state[p2] = IN_QUEUE
       /\ sent'[p1] = <<GameStart(username[p2], rating[p2]),
                        YourTurn(Sentinel, generate_game_start)>>
       /\ sent'[p2] = <<GameStart(username[p1], rating[p1])>>
       /\ state'[p1] = USER_MOVE /\ state'[p2] = PROCESSING_GAME_STATE
       /\ game'[p1] = g /\ game'[p2] = g
       /\ \A c \in Conn \ {p1, p2} : CountType(sent'[c], "GameStart") = 0
C16_GameStartFirst ==
    [][/\ GameMade => C16_Started
       /\ ~GameMade => \A c \in Conn : CountType(sent'[c], "GameStart") = 0]_vars
\* two sessions were paired while a third stayed in the queue
C16_Witness ==
    /\ ev.kind = "tick"
    /\ Len(games) = 1
    /\ Len(users) = 1
    /\ sent[games[1].player_two] = <<GameStart(username[games[1].player_one],
                                               rating[games[1].player_one])>>

\* a method of UserQueue was called in this step
QueueStep(name) == ev'.kind = "queue" /\ ev'.msg.type = name
\* the position of session c in queue q
PosIn(q, c) == CHOOSE i \in 1..Len(q) : q[i] = c
Diff(a, b) == Abs(rating[a] - rating[b])

\* C17: pop_closest_pair on a queue of at least two sessions with pairwise distinct
\* usernames returns two different queued sessions, the earlier queued first, whose
\* rating difference is the least over all pairs of the queue; every pair the scan
\* visits before it (the scan takes the queue in order, and for each session the queue
\* in order again) has a larger difference; exactly these two leave the queue and the
\* others keep their order.  Ratings 2, 4, 5 give the pair (4, 5) and leave 2 in front.
C17_Pops ==
    /\ QueueStep("pop_closest_pair")
    /\ Len(users) >= 2
    /\ \A i, j \in 1..Len(users) : i # j => username[users[i]] # username[users[j]]
C17_Pair ==
    LET a == ev'.msg.pair[1]
        b == ev'.msg.pair[2]
        n == Len(users)
    IN /\ exc' = "none"
       /\ {a, b} \subseteq Members(users)
       /\ a # b
       /\ PosIn(users, a) < PosIn(users, b)
       /\ \A x, y \in Members(users) : x # y => Diff(x, y) >= Diff(a, b)
       /\ \A i, j \in 1..n :
             (i # j /\ (i - 1) * n + j < (PosIn(users, a) - 1) * n + PosIn(users, b)) =>
                Diff(users[i], users[j]) > Diff(a, b)
       /\ users' = SelectSeq(users, LAMBDA x : x \notin {a, b})
C17_ClosestPair == [][C17_Pops => C17_Pair]_vars
\* the queue of test_queue.py: ratings 2, 4, 5 in this order, the pair (4, 5) was popped
C17_Witness ==
    /\ ev.kind = "queue"
    /\ ev.msg.type = "pop_closest_pair"
    /\ exc = "none"
    /\ users = <<1>>
    /\ ev.msg.pair = <<2, 3>>
    /\ rating[1] = 2 /\ rating[2] = 4 /\ rating[3] = 5

\* C18: the queue operations fail without changing the queue: enqueue_user of a session
\* that is in the queue raises DuplicateUser, dequeue_user and location_of of a session
\* that is not in the queue raise NotInQueue, pop_closest_pair on fewer than two
\* sessions raises QueueTooSmall, and each of them leaves the queue as it was.
C18_FailsClean ==
    [][/\ (QueueStep("enqueue_user") /\ ev'.conn \in Members(users)) =>
              exc' = "DuplicateUser" /\ users' = users
       /\ (QueueStep("dequeue_user") /\ ev'.conn \notin Members(users)) =>
              exc' = "NotInQueue" /\ users' = users
       /\ (QueueStep("location_of") /\ ev'.conn \notin Members(users)) =>
              exc' = "NotInQueue" /\ users' = users
       /\ (QueueStep("pop_closest_pair") /\ Len(users) < 2) =>
              exc' = "QueueTooSmall" /\ users' = users]_vars
\* dequeue_user of a session outside a queue that holds others raised NotInQueue
C18_Witness ==
    /\ ev.kind = "queue"
    /\ ev.msg.type = "dequeue_user"
    /\ exc = "NotInQueue"
    /\ Len(users) > 0

\* the matchmaking timer fired in this step
TickStep == ev'.kind = "tick"

\* C19: a tick of the timer starts at most one game; when at least two sessions are
\* queued it starts one, whose two players are two of the queued sessions, and exactly
\* these two leave the queue.  With the timer firing again and again and no session
\* joining or leaving, the queue eventually holds at most one session.
C19_Pairs ==
    LET G == games'[Len(games')]
    IN /\ GameMade
       /\ G.player_one # G.player_two
       /\ {G.player_one, G.player_two} \subseteq Members(users)
       /\ users' = SelectSeq(users, LAMBDA x : x \notin {G.player_one, G.player_two})
C19_OneGamePerTick ==
    /\ [][TickStep => /\ Len(games') <= Len(games) + 1
                      /\ Len(users) >= 2 => C19_Pairs]_vars
    /\ <>(Len(users) <= 1)
\* a tick took two of three queued sessions into a game
C19_Witness ==
    /\ ev.kind = "tick"
    /\ Len(games) = 1
    /\ Len(users) = 1
    /\ state[games[1].player_one] = USER_MOVE

\* C20: on every tick, whether or not it made a match, each session that is in the
\* queue after the pairing is sent exactly one QueuePosition, with the length of the
\* queue, its own 1-based position and its rating, and nothing else; the sessions
\* matched on the tick are sent no QueuePosition.
C20_Notified ==
    /\ \A c \in Members(users') :
          sent'[c] = <<QueuePosition(Len(users'), PosIn(users', c), rating[c])>>
    /\ \A c \in Conn \ Members(users') : CountType(sent'[c], "QueuePosition") = 0
C20_QueuePositions == [][TickStep => C20_Notified]_vars
\* a tick without a match told the only queued session its position
C20_Witness ==
    /\ ev.kind = "tick"
    /\ games = <<>>
    /\ Len(users) = 1
    /\ sent[users[1]] = <<QueuePosition(1, 1, rating[users[1]])>>

CodecStep(t) == ev'.kind = "codec" /\ ev'.msg.type = t
\* bit p of the 192 bits of a 24-byte buffer, counted from the most significant end
MsBit(raw, p) == RawBit(raw, 191 - p)
\* the three bits [3i, 3i+3) from the most significant end, read as used, promoted, owner
MsCell(raw, i) == 4 * MsBit(raw, 3 * i) + 2 * MsBit(raw, 3 * i + 1) + MsBit(raw, 3 * i + 2)

\* C23: for every Board b, Board.from_bytes(b.to_bytes()) has exactly 64 cells and its
\* cell at every position equals the cell of b at that position; to_bytes writes cell i
\* of the iteration order to bits [3i, 3i+3) counted from the most significant end, and
\* from_bytes reads cell i from the same bits.
C23_Same ==
    LET r == ev'.msg
    IN /\ Len(r.result) = 64
       /\ \A x \in 0..7, y \in 0..7 : At(r.result, <<x, y>>) = At(r.board, <<x, y>>)
       /\ \A i \in 0..63 : MsCell(r.raw, i) = BoardLocation_to_bytes(r.board[i + 1])
       /\ \A i \in 0..63 : r.result[i + 1] = BoardLocation_from_bytes(MsCell(r.raw, i))
C23_BoardRoundTrip == [][CodecStep("Board") => C23_Same]_vars
\* the start position has been encoded and decoded
C23_Witness ==
    /\ ev.kind = "codec"
    /\ ev.msg.type = "Board"
    /\ ev.msg.board = generate_game_start
    /\ Len(ev.msg.result) = 64

\* C22: for every message m with valid fields, parse_and_decode(encode(m)) returns a
\* message of the same type with the same fields, the Move and the Board included, and
\* encoding that message gives the bytes of encode(m) again.
C22_Inverse ==
    LET r == ev'.msg
    IN /\ r.exc = "none"
       /\ r.result = r.message
       /\ r.again = r.raw
C22_MessageRoundTrip == [][CodecStep("Message") => C22_Inverse]_vars
\* a YourTurn with the start position has been encoded and decoded
C22_Witness ==
    /\ ev.kind = "codec"
    /\ ev.msg.type = "Message"
    /\ ev.msg.message.type = "YourTurn"
    /\ ev.msg.message.board = generate_game_start
    /\ ev.msg.exc = "none"

\* the body sizes of the table of wire messages
BodySize == [Connect |-> 1 + 16 + 16, InvalidLogin |-> 1, InvalidVersion |-> 1 + 1,
             QueuePosition |-> 4 + 4 + 4, GameStart |-> 16 + 4, YourTurn |-> 1 + 24,
             MakeMove |-> 1, CompulsoryMove |-> 1 + 24, InvalidMove |-> 1 + 24,
             OpponentDisconnect |-> 0, GameOver |-> 1 + 4 + 4 + 1 + 24, ReQueue |-> 0,
             LogOut |-> 0]
\* C24: T.parse_and_decode(buf) raises NotEnoughData exactly when buf is shorter than
\* one byte plus the body size of T, and otherwise raises InvalidType exactly when the
\* first byte of buf is not T's type; so an encoding without its last byte gives
\* NotEnoughData and a full-length one with another first byte gives InvalidType, for
\* the messages with an empty body too.
C24_Raises ==
    LET r == ev'.msg
        short == Len(r.data) < 1 + BodySize[r.cls]
    IN /\ r.exc = "NotEnoughData" <=> short
       /\ ~short => (r.exc = "InvalidType" <=> r.data[1] # type[r.cls])
C24_ParseErrors == [][CodecStep("Buffer") => C24_Raises]_vars
\* LogOut.parse_and_decode was given one byte that is not its type and raised InvalidType
C24_Witness ==
    /\ ev.kind = "codec"
    /\ ev.msg.type = "Buffer"
    /\ ev.msg.cls = "LogOut"
    /\ Len(ev.msg.data) = 1
    /\ ev.msg.exc = "InvalidType"
\* the encoding of a GameOver without its last byte raised NotEnoughData
C24_WitnessShort ==
    /\ ev.kind = "codec"
    /\ ev.msg.type = "Buffer"
    /\ ev.msg.cls = "GameOver"
    /\ Len(ev.msg.data) = BodySize["GameOver"]
    /\ ev.msg.data[1] = type["GameOver"]
    /\ ev.msg.exc = "NotEnoughData"

BoardStep == ev'.kind = "board"
Accepted == BoardStep /\ ~ev'.msg.raised
\* the accepted move of this step is a capture: the square one step away was used
Capture == At(ev'.msg.board, after_move_pos(ev'.msg.move)).used
\* the square the moved piece lands on
Landing ==
    IF Capture THEN after_double_move_pos(ev'.msg.move) ELSE after_move_pos(ev'.msg.move)

\* C27: Board.apply_move(move, allowedY, isPrimary) raises InvalidMove if and only if
\* the start square or the single-step square is out of bounds, or the start square is
\* unused, or the start piece's owner differs from isPrimary, or the start piece is
\* unpromoted and the move's y-direction differs from allowedY, or the single-step square
\* holds a piece of the mover's side, or it holds an opposing piece and the double-step
\* square is out of bounds or used.  Whenever it raises, the board is left unchanged.
C27_MustRaise ==
    LET r == ev'.msg
        m == r.move
    IN \/ ~InBounds(pos(m))
       \/ ~InBounds(after_move_pos(m))
       \/ /\ InBounds(pos(m))
          /\ InBounds(after_move_pos(m))
          /\ LET start == At(r.board, pos(m))
                 single == At(r.board, after_move_pos(m))
             IN \/ ~start.used
                \/ start.owner # r.is_primary_player
                \/ ~start.promoted /\ m.y_direction # r.allowed_y_direction
                \/ single.used /\ single.owner = r.is_primary_player
                \/ /\ single.used
                   /\ single.owner # r.is_primary_player
                   /\ \/ ~InBounds(after_double_move_pos(m))
                      \/ At(r.board, after_double_move_pos(m)).used
C27_WitnessJump ==
    /\ ev.kind = "board"
    /\ ev.msg.raised
    /\ InBounds(pos(ev.msg.move)) /\ InBounds(after_double_move_pos(ev.msg.move))
    /\ LET start == At(ev.msg.board, pos(ev.msg.move))
           single == At(ev.msg.board, after_move_pos(ev.msg.move))
       IN /\ start.used /\ start.promoted /\ start.owner = ev.msg.is_primary_player
          /\ single.used /\ single.owner # start.owner
    /\ At(ev.msg.board, after_double_move_pos(ev.msg.move)).used

\* C28: an accepted non-capturing move changes exactly two cells (the start square
\* becomes unused, the single-step square receives the piece), an accepted capture
\* exactly three (start square unused, the jumped opposing piece removed, the
\* double-step square receives the piece); the moved piece keeps its owner, every other
\* cell is unchanged, the mover's piece count is unchanged and the opponent's drops by
\* one on a capture and by zero otherwise.
C28_Effect ==
    LET r == ev'.msg
        m == r.move
        mover == r.is_primary_player
        changed == {k \in 1..64 : r.after[k] # r.board[k]}
    IN /\ changed = IF Capture
                    THEN {Idx(pos(m)), Idx(after_move_pos(m)), Idx(after_double_move_pos(m))}
                    ELSE {Idx(pos(m)), Idx(after_move_pos(m))}
       /\ Cardinality(changed) = IF Capture THEN 3 ELSE 2
       /\ ~At(r.after, pos(m)).used
       /\ Capture => ~At(r.after, after_move_pos(m)).used
       /\ At(r.after, Landing).used
       /\ At(r.after, Landing).owner = At(r.board, pos(m)).owner
       /\ Cardinality(Pieces(r.after, mover)) = Cardinality(Pieces(r.board, mover))
       /\ Cardinality(Pieces(r.after, ~mover)) =
             Cardinality(Pieces(r.board, ~mover)) - (IF Capture THEN 1 ELSE 0)
C28_MoveEffect == [][Accepted => C28_Effect]_vars
\* a capture was accepted
C28_Witness ==
    /\ ev.kind = "board"
    /\ ~ev.msg.raised
    /\ At(ev.msg.board, after_move_pos(ev.msg.move)).used
    /\ At(ev.msg.after, after_double_move_pos(ev.msg.move)).used
\* a move to a free square was accepted
C28_WitnessStep ==
    /\ ev.kind = "board"
    /\ ~ev.msg.raised
    /\ ~At(ev.msg.board, after_move_pos(ev.msg.move)).used
    /\ At(ev.msg.after, after_move_pos(ev.msg.move)).used

\* C29: after an accepted move, if the landing square of the moved piece has y = 0 or
\* y = 7 the piece on it is promoted, for a step and for a capture and for either owner;
\* a piece that lands on another row keeps the promoted flag it had before the move.
C29_Promoted ==
    LET r == ev'.msg
    IN IF Landing[2] \in {0, 7} THEN At(r.after, Landing).promoted
       ELSE At(r.after, Landing).promoted = At(r.board, pos(r.move)).promoted
C29_Promotion == [][Accepted => C29_Promoted]_vars
\* an unpromoted piece of the secondary side jumped onto row 7 and is promoted
C29_Witness ==
    /\ ev.kind = "board"
    /\ ~ev.msg.raised
    /\ ~ev.msg.is_primary_player
    /\ ~At(ev.msg.board, pos(ev.msg.move)).promoted
    /\ At(ev.msg.board, after_move_pos(ev.msg.move)).used
    /\ after_double_move_pos(ev.msg.move)[2] = 7
    /\ At(ev.msg.after, after_double_move_pos(ev.msg.move)).promoted
\* an unpromoted piece of the primary side stepped onto row 0 and is promoted
C29_WitnessStep ==
    /\ ev.kind = "board"
    /\ ~ev.msg.raised
    /\ ev.msg.is_primary_player
    /\ ~At(ev.msg.board, pos(ev.msg.move)).promoted
    /\ ~At(ev.msg.board, after_move_pos(ev.msg.move)).used
    /\ after_move_pos(ev.msg.move)[2] = 0
    /\ At(ev.msg.after, after_move_pos(ev.msg.move)).promoted

BoardMessages == {"YourTurn", "CompulsoryMove", "InvalidMove", "GameOver"}
\* the game a session was sent a board of: the one it refers to after the callback, or
\* the one it referred to before if the callback took the reference away
GameOf(c) == IF game'[c] # NoGame THEN game'[c] ELSE game[c]
\* the canonical board when the k-th CompulsoryMove of a callback was sent: the forced
\* captures are applied one after the other to the board the accepted move left
RECURSIVE CanonicalAt(_, _, _)
CanonicalAt(forced, k, base) ==
    IF k = 0 THEN base ELSE apply_move_no_check(CanonicalAt(forced, k - 1, base), forced[k].move)
\* the canonical board of game g when message i of sent'[c] was written.  YourTurn,
\* InvalidMove and GameOver are written after the last change of the board.
CanonicalWhen(g, c, i) ==
    IF sent'[c][i].type = "CompulsoryMove"
    THEN CanonicalAt(OfType(sent'[c], "CompulsoryMove"),
                     Len(OfType(SubSeq(sent'[c], 1, i), "CompulsoryMove")),
                     apply_move_no_check(games[g].board, ev'.msg.move))
    ELSE games'[g].board

\* C30: every board the server sends to playerTwo in YourTurn, CompulsoryMove,
\* InvalidMove or GameOver is the owner-flipped translation of the game's canonical
\* board at that moment, and every board sent to playerOne is the canonical board
\* itself (so a session's own pieces are the used cells with owner true in every board
\* it receives); producing the view for a refused move leaves the canonical board as
\* it was.
C30_View(c, i) ==
    LET g == GameOf(c)
    IN /\ g # NoGame
       /\ c \in {games'[g].player_one, games'[g].player_two}
       /\ sent'[c][i].board =
             IF games'[g].player_one = c THEN CanonicalWhen(g, c, i)
             ELSE translate_to_other_user(CanonicalWhen(g, c, i))
       /\ sent'[c][i].type = "InvalidMove" => games'[g].board = games[g].board
C30_SeatViews ==
    [][\A c \in Conn : \A i \in 1..Len(sent'[c]) :
          sent'[c][i].type \in BoardMessages => C30_View(c, i)]_vars
\* player two was sent a YourTurn whose board is the translation of a canonical board
\* on which both sides have pieces
C30_Witness ==
    \E c \in Conn :
        /\ game[c] # NoGame
        /\ games[game[c]].player_two = c
        /\ \E i \in 1..Len(sent[c]) :
              /\ sent[c][i].type = "YourTurn"
              /\ sent[c][i].board = translate_to_other_user(games[game[c]].board)
              /\ sent[c][i].board # games[game[c]].board
\* both players were sent a CompulsoryMove, each with its own view of the board
C30_WitnessForced ==
    \E c \in Conn, d \in Conn :
        /\ c # d
        /\ CountType(sent[c], "CompulsoryMove") > 0
        /\ CountType(sent[d], "CompulsoryMove") > 0
        /\ OfType(sent[d], "CompulsoryMove")[1].board =
              translate_to_other_user(OfType(sent[c], "CompulsoryMove")[1].board)

\* the bytes of a read do not begin with a complete message of a known type: the buffer
\* is empty, its first byte is no type, or the body is shorter than the size of its type
WireError(data) ==
    \/ Len(data) = 0
    \/ \A cls \in MessageTypes : type[cls] # data[1]
    \/ \E cls \in MessageTypes : type[cls] = data[1] /\ Len(data) < 1 + BodySize[cls]
\* the session the game of c seats opposite c
OpponentOf(c) ==
    IF game[c] = NoGame THEN {}
    ELSE {games[game[c]].player_one, games[game[c]].player_two} \ {c}

\* C25: a wire error is fatal to the connection it occurs on and only to that one: when
\* the bytes a session reads do not begin with a complete message of a known type, the
\* session is disconnected (transport shut down, state UNAUTHENTICATED, out of the queue
\* and of its game), no state handler runs for those bytes, and no other session's state
\* changes but the opponent's.
C25_Disconnected(c) ==
    /\ handle'[c] = "shutdown"
    /\ state'[c] = UNAUTHENTICATED
    /\ \A i \in 1..Len(users') : users'[i] # c
    /\ game'[c] = NoGame
    /\ ev'.msg.handled = <<>>
    /\ \A d \in Conn \ ({c} \cup OpponentOf(c)) : state'[d] = state[d]
C25_WireErrorsFatal ==
    [][(ev'.kind = "read" /\ WireError(ev'.msg.data)) => C25_Disconnected(ev'.conn)]_vars
\* a session that was in a game read a MakeMove without its move and was disconnected,
\* and its opponent was told
C25_Witness ==
    /\ ev.kind = "read"
    /\ ev.msg.data = <<type.MakeMove>>
    /\ handle[ev.conn] = "shutdown"
    /\ state[ev.conn] = UNAUTHENTICATED
    /\ \E d \in Conn : CountType(sent[d], "OpponentDisconnect") = 1

\* C26: when one read delivers k >= 2 complete messages back to back, the session
\* decodes and handles each of the k messages exactly once, in arrival order, the first
\* in the state the session was in and each next one in the state the previous one
\* left, and then stops: __on_data is entered k times.
C26_InOrder(c, read) ==
    /\ Len(read.handled) = Len(read.parts)
    /\ \A i \in 1..Len(read.handled) : read.handled[i].msg = read.parts[i]
    /\ read.handled[1].state = state[c]
    /\ read.calls = Len(read.parts)
C26_EachOnce ==
    [][(ev'.kind = "read" /\ Len(ev'.msg.parts) >= 2) => C26_InOrder(ev'.conn, ev'.msg)]_vars
\* two messages were read in one buffer by a session that was logged in, and the first
\* of them was handled
C26_Witness ==
    /\ ev.kind = "read"
    /\ Len(ev.msg.parts) = 2
    /\ Len(ev.msg.handled) >= 1
    /\ ev.msg.handled[1].msg = ev.msg.parts[1]

\* the connection of c is open and nothing is in flight on it in either direction
Settled(c) ==
    /\ ~closed[c]
    /\ handle[c] = "active"
    /\ up[c] = <<>>
    /\ down[c] = <<>>

\* C21: client and server never desynchronize: for every open connection, whenever no
\* message is in flight in either direction, the client's protocol state equals the
\* protocol state of its session (a client waiting for its user's move is in USER_MOVE,
\* a client waiting for the replay answer in GAME_END).
C21_InSync == \A c \in Conn : Settled(c) => protocol_state[c] = state[c]
\* a client read GameOver and waits for the replay answer while its session is in
\* GAME_END, with nothing in flight
C21_Witness ==
    \E c \in Conn :
        /\ Settled(c)
        /\ ev.kind = "client"
        /\ ev.conn = c
        /\ ev.msg.type = "GameOver"
        /\ waiting[c] = "replay"
        /\ protocol_state[c] = GAME_END
        /\ state[c] = GAME_END

\* the CompulsoryMove messages the callback wrote to session p, in the order written
Seen(p) == OfType(sent'[p], "CompulsoryMove")
\* the board of the game of the accepted move right after that move, before any
\* compulsory move
AfterAccepted == apply_move_no_check(games[game[ev'.conn]].board, ev'.msg.move)
\* the board after the first k of the moves
RECURSIVE BoardAfter(_, _, _)
BoardAfter(b, moves, k) ==
    IF k = 0 THEN b ELSE apply_move_no_check(BoardAfter(b, moves, k - 1), moves[k])
\* the side to move when the k-th of the moves is made, first being the side to move at
\* the first: the side stays while the piece that captured captures again
RECURSIVE TurnAt(_, _, _)
TurnAt(moves, first, k) ==
    IF k = 1 THEN first
    ELSE IF pos(moves[k]) = after_double_move_pos(moves[k - 1])
    THEN TurnAt(moves, first, k - 1)
    ELSE ~TurnAt(moves, first, k - 1)
\* move m on board b is a capture by side, and a is the board after it: one piece of the
\* other side is gone, the capturing piece is two squares further, all else is in place
CaptureBy(b, m, side, a) ==
    /\ InBounds(pos(m))
    /\ InBounds(after_double_move_pos(m))
    /\ Idx(pos(m)) \in Pieces(b, side)
    /\ Idx(after_move_pos(m)) \in Pieces(b, ~side)
    /\ ~At(b, after_double_move_pos(m)).used
    /\ Pieces(a, ~side) = Pieces(b, ~side) \ {Idx(after_move_pos(m))}
    /\ Pieces(a, side) = (Pieces(b, side) \ {Idx(pos(m))}) \cup {Idx(after_double_move_pos(m))}

\* C31: every compulsory move applied after an accepted move is a capture by the side
\* whose turn it is at that moment and removes exactly one opposing piece; for each such
\* move both sessions of the game are sent exactly one CompulsoryMove with that move and
\* their own view of the board after it, in the order applied (so the board the game is
\* left with is the board of the last one), and before the YourTurn or GameOver.
C31_Holds ==
    LET c == ev'.conn
        g == game[c]
        G == games[g]
        o == Opponent(g, c)
        moves == [k \in 1..Len(Seen(G.player_one)) |-> Seen(G.player_one)[k].move]
        n == Len(moves)
    IN /\ \A p \in {c, o} :
             /\ Len(Seen(p)) = n
             /\ \A k \in 1..n :
                   /\ Seen(p)[k].move = moves[k]
                   /\ Seen(p)[k].board =
                         View([G EXCEPT !.board = BoardAfter(AfterAccepted, moves, k)], p)
             /\ \A i, j \in 1..Len(sent'[p]) :
                   (/\ sent'[p][i].type = "CompulsoryMove"
                    /\ sent'[p][j].type \in {"YourTurn", "GameOver"}) => i < j
       /\ games'[g].board = BoardAfter(AfterAccepted, moves, n)
       /\ \A k \in 1..n :
             CaptureBy(BoardAfter(AfterAccepted, moves, k - 1), moves[k],
                       TurnAt(moves, G.player_one # c, k),
                       BoardAfter(AfterAccepted, moves, k))
C31_CompulsoryAnnounced == [][AcceptedMoveStep => C31_Holds]_vars
\* an accepted move was followed by a capture of each side, and both players were sent
\* the two CompulsoryMove messages, one of them then YourTurn or GameOver
C31_Witness ==
    /\ ev.kind = "data"
    /\ ev.msg.type = "MakeMove"
    /\ \E p, q \in Conn :
          /\ p # q
          /\ CountType(sent[p], "CompulsoryMove") = 2
          /\ CountType(sent[q], "CompulsoryMove") = 2
          /\ sent[p][1].move # sent[p][2].move
          /\ Len(sent[p]) = 3
          /\ sent[p][3].type \in {"YourTurn", "GameOver"}

\* the piece on square sq of board b has an opposing piece diagonally adjacent, in a
\* direction it may move, with an empty square of the board right behind it
PieceCanCapture(b, sq) ==
    \E dx \in {-1, 1}, dy \in {-1, 1} :
        LET piece == At(b, sq)
            mid == <<sq[1] + dx, sq[2] + dy>>
            far == <<sq[1] + 2 * dx, sq[2] + 2 * dy>>
        IN /\ piece.used
           /\ piece.promoted \/ dy = (IF piece.owner THEN -1 ELSE 1)
           /\ InBounds(mid)
           /\ InBounds(far)
           /\ At(b, mid).used
           /\ At(b, mid).owner # piece.owner
           /\ ~At(b, far).used
\* the player of game G who plays side
PlayerOf(G, side) == IF side THEN G.player_one ELSE G.player_two

\* C32: in the compulsory moves that follow an accepted move, a move by the same side as
\* the one before starts on the landing square of the one before; the piece goes on
\* exactly while it can capture; when it cannot, the turn passes to the opponent whatever
\* the other pieces of its side could do, and the opponent then captures exactly if any
\* of its pieces can.  The first search is the one for the opponent of the mover.
C32_Holds ==
    LET c == ev'.conn
        g == game[c]
        G == games[g]
        mover == (G.player_one = c)
        moves == [k \in 1..Len(Seen(G.player_one)) |-> Seen(G.player_one)[k].move]
        n == Len(moves)
        B(k) == BoardAfter(AfterAccepted, moves, k)
        side(k) == At(B(k - 1), pos(moves[k])).owner
        landing(k) == after_double_move_pos(moves[k])
        goes_on(k) == k < n /\ pos(moves[k + 1]) = landing(k)
    IN /\ CanCapture(B(0), ~mover) <=> n >= 1
       /\ n >= 1 => side(1) = ~mover
       /\ \A k \in 2..n : side(k) = side(k - 1) => pos(moves[k]) = landing(k - 1)
       /\ \A k \in 1..n :
             /\ goes_on(k) <=> PieceCanCapture(B(k), landing(k))
             /\ goes_on(k) => side(k + 1) = side(k)
             /\ ~goes_on(k) =>
                   /\ CanCapture(B(k), ~side(k)) <=> k < n
                   /\ k < n => side(k + 1) = ~side(k)
       /\ games'[g].next_to_go = PlayerOf(G, IF n = 0 THEN ~mover ELSE ~side(n))
C32_SamePieceChain == [][AcceptedMoveStep => C32_Holds]_vars
\* an accepted move was followed by two captures of one piece, and by a capture after
\* which the turn passed although another piece of the capturing side could capture
C32_Witness ==
    /\ ev.kind = "data"
    /\ ev.msg.type = "MakeMove"
    /\ \E p \in Conn :
          LET cms == OfType(sent[p], "CompulsoryMove")
              n == Len(cms)
              landing(k) == after_double_move_pos(cms[k].move)
              goes_on(k) == k < n /\ pos(cms[k + 1].move) = landing(k)
          IN /\ game[p] # NoGame
             /\ games[game[p]].player_one = p
             /\ \E k \in 1..n : goes_on(k)
             /\ \E k \in 1..n :
                   /\ ~goes_on(k)
                   /\ \E sq \in (0..7) \X (0..7) :
                         /\ sq # landing(k)
                         /\ At(cms[k].board, sq).used
                         /\ At(cms[k].board, sq).owner = At(cms[k].board, landing(k)).owner
                         /\ PieceCanCapture(cms[k].board, sq)

\* how many pieces are on board b
PieceCount(b) == Cardinality({k \in 1..64 : b[k].used})

\* C33: the resolution of forced captures that follows an accepted move ends, and every
\* compulsory move of it takes one piece off the board: the k-th leaves k pieces fewer
\* than there were when the resolution started, the board the game is left with has as
\* many pieces fewer as compulsory moves were made, and there are at most as many
\* compulsory moves as there were pieces.
C33_Holds ==
    LET c == ev'.conn
        g == game[c]
        G == games[g]
        n == Len(Seen(G.player_one))
    IN /\ n <= PieceCount(AfterAccepted)
       /\ Len(Seen(G.player_two)) = n
       /\ \A k \in 1..n :
             PieceCount(Seen(G.player_one)[k].board) = PieceCount(AfterAccepted) - k
       /\ PieceCount(games'[g].board) = PieceCount(AfterAccepted) - n
C33_ResolutionBounded == [][AcceptedMoveStep => C33_Holds]_vars
\* a resolution of three compulsory moves in which the capturing side changed
C33_Witness ==
    /\ ev.kind = "data"
    /\ ev.msg.type = "MakeMove"
    /\ \E p \in Conn :
          LET cms == OfType(sent[p], "CompulsoryMove")
          IN /\ Len(cms) = 3
             /\ \E k \in 1..2 : pos(cms[k + 1].move) # after_double_move_pos(cms[k].move)
             /\ PieceCount(cms[3].board) = PieceCount(cms[1].board) - 2
             /\ game[p] # NoGame
             /\ PieceCount(games[game[p]].board) = PieceCount(cms[3].board)

\* sequence s is what is left of sequence t, which lists nothing twice, when some of
\* its entries are taken out
LeftOf(s, t) ==
    /\ \A i \in 1..Len(s) : \E j \in 1..Len(t) : t[j] = s[i]
    /\ \A i, j \in 1..Len(s) :
          i < j => \A k, l \in 1..Len(t) : (t[k] = s[i] /\ t[l] = s[j]) => k < l
\* the step called enqueue_user for the session of the event
EnqueueStep ==
    \/ ev'.kind \in {"data", "handler"} /\ ev'.msg.type \in {"Connect", "ReQueue"}
    \/ ev'.kind = "queue" /\ ev'.msg.type = "enqueue_user"
\* no two entries of the queue are equal sessions, and location_of gives each entry its
\* 0-based index
QueueSound ==
    /\ \A i, j \in 1..Len(users) : i # j => ~SessionEq(World, users[i], users[j])
    /\ \A i \in 1..Len(users) :
          /\ Queue_contains(World, users[i])
          /\ location_of(World, users[i]) = i - 1

\* C34: after every operation on the queue (enqueue_user, dequeue_user,
\* pop_closest_pair, a tick of the timer) the queue holds no two equal sessions and
\* location_of gives every queued session its 0-based index; the sessions that stay
\* keep their order, and a session that enqueue_user added is the last one.
C34_Holds ==
    LET n == Len(users')
        added == /\ EnqueueStep
                 /\ n > 0
                 /\ users'[n] = ev'.conn
        kept == IF added THEN SubSeq(users', 1, n - 1) ELSE users'
    IN /\ QueueSound'
       /\ LeftOf(kept, users)
       /\ (added /\ Len(users') > Len(users)) => \A i \in 1..Len(users) : users[i] # ev'.conn
       /\ (ev'.kind = "queue" /\ ev'.msg.type = "location_of"
              /\ \E i \in 1..Len(users) : users[i] = ev'.conn)
          => users[ev'.msg.index + 1] = ev'.conn
C34_QueueOrdered == [][C34_Holds]_vars
\* a session left the queue from in front of another one, and a session that joined
\* after that is behind it
C34_Witness ==
    /\ Len(users) = 2
    /\ users[1] > users[2]
    /\ QueueSound
    /\ ev.kind \in {"data", "handler"}
    /\ ev.msg.type \in {"Connect", "ReQueue"}
    /\ ev.conn = users[2]

\* C35: between the handlings of events a session in UNAUTHENTICATED has no identity:
\* its username and its rating are cleared.
C35_NoIdentity ==
    \A c \in Conn : state[c] = UNAUTHENTICATED => (username[c] = None /\ rating[c] = NoRating)
\* a session was refused as already logged in and is in UNAUTHENTICATED
C35_Witness ==
    /\ ev.kind = "handler"
    /\ ev.msg.type = "Connect"
    /\ state[ev.conn] = UNAUTHENTICATED
    /\ Len(sent[ev.conn]) > 0
    /\ sent[ev.conn][Len(sent[ev.conn])] = InvalidLogin("AlreadyLoggedIn")

\* session c is an entry of the queue
IsEntry(c) == \E i \in 1..Len(users) : users[i] = c

\* C36: between the handlings of events a session is an entry of the matchmaking queue
\* exactly if its protocol state is IN_QUEUE.
C36_QueuedIffInQueue == \A c \in Conn : IsEntry(c) <=> state[c] = IN_QUEUE
\* a session that was not logged in sent LogOut, and a session in IN_QUEUE is no entry
\* of the queue
C36_Witness ==
    /\ ev.kind = "data"
    /\ ev.msg.type = "LogOut"
    /\ state[ev.conn] = UNAUTHENTICATED
    /\ \E c \in Conn : c # ev.conn /\ state[c] = IN_QUEUE /\ ~IsEntry(c)

\* both players of game g are still playing it: each session has the game as its game,
\* and each side has pieces left
StillPlayed(g) ==
    /\ game[games[g].player_one] = g
    /\ game[games[g].player_two] = g
    /\ ~check_game_over(games[g].board, TRUE)
    /\ ~check_game_over(games[g].board, FALSE)

\* C37: between the handlings of events, in every game both players of which are still
\* playing it, the session that is next to go is in USER_MOVE and the other player is in
\* PROCESSING_GAME_STATE.
C37_OneToMove ==
    \A g \in 1..Len(games) :
        StillPlayed(g) =>
            LET G == games[g]
                other == IF G.next_to_go = G.player_one THEN G.player_two ELSE G.player_one
            IN /\ G.next_to_go \in {G.player_one, G.player_two}
               /\ G.player_one # G.player_two
               /\ state[G.next_to_go] = USER_MOVE
               /\ state[other] = PROCESSING_GAME_STATE
\* a move was accepted and the game goes on: the opponent of the player who moved was
\* sent YourTurn and is next to go
C37_Witness ==
    /\ ev.kind = "data"
    /\ ev.msg.type = "MakeMove"
    /\ game[ev.conn] # NoGame
    /\ StillPlayed(game[ev.conn])
    /\ state[ev.conn] = PROCESSING_GAME_STATE
    /\ \E p \in Conn :
          /\ p # ev.conn
          /\ games[game[ev.conn]].next_to_go = p
          /\ Len(OfType(sent[p], "YourTurn")) = 1
          /\ state[p] = USER_MOVE

\* C38: when a connection closes, the queue loses the entry of that connection's
\* session, if it has one, and nothing else: the other entries stay, in their order,
\* and the sessions among them that were in IN_QUEUE still are.
C38_Holds ==
    LET c == ev'.conn
    IN /\ users' = SelectSeq(users, LAMBDA x : x # c)
       /\ \A i \in 1..Len(users) :
             (users[i] # c /\ state[users[i]] = IN_QUEUE) => state'[users[i]] = IN_QUEUE
C38_OnlyOwnEntry == [][ev'.kind = "error" => C38_Holds]_vars
\* a connection closed, and a session of another connection is in IN_QUEUE without
\* being an entry of the queue
C38_Witness ==
    /\ ev.kind = "error"
    /\ \E c \in Conn : c # ev.conn /\ state[c] = IN_QUEUE /\ ~IsEntry(c)

\* the kinds of message the handler of protocol state s has a branch for
HandledKinds(s) ==
    CASE s = UNAUTHENTICATED -> {"Connect"}
      [] s = IN_QUEUE -> {"LogOut"}
      [] s = PROCESSING_GAME_STATE -> {"LogOut"}
      [] s = USER_MOVE -> {"MakeMove", "LogOut"}
      [] s = GAME_END -> {"MakeMove", "ReQueue", "LogOut"}
      [] OTHER -> {}

\* C39: with clients that follow the client state machine, every message a session
\* reads is of a kind the handler of the session's protocol state accepts.
C39_Holds == ev'.msg.type \in HandledKinds(state[ev'.conn])
C39_NeverInvalid == [][ev'.kind \in {"data", "handler"} => C39_Holds]_vars
\* a session that is not logged in read the LogOut of its client
C39_Witness ==
    /\ ev.kind = "data"
    /\ ev.msg.type = "LogOut"
    /\ state[ev.conn] = UNAUTHENTICATED
    /\ closed[ev.conn]
    /\ protocol_state[ev.conn] = IN_QUEUE

\* C40: a session that was sent YourTurn has a move the engine accepts.
C40_CanMove ==
    \A p \in Conn :
        (Len(OfType(sent[p], "YourTurn")) > 0 /\ state[p] = USER_MOVE /\ game[p] # NoGame)
            => \E move \in AllMoves : EngineAccepts(p, move)
\* after an accepted move the opponent, who has a piece on the board, was sent YourTurn
\* and no move of that piece, nor any other, is accepted
C40_Witness ==
    /\ ev.kind = "data"
    /\ ev.msg.type = "MakeMove"
    /\ \E p \in Conn :
          /\ p # ev.conn
          /\ Len(OfType(sent[p], "YourTurn")) = 1
          /\ state[p] = USER_MOVE
          /\ game[p] = game[ev.conn]
          /\ game[p] # NoGame
          /\ ~check_game_over(games[game[p]].board, TRUE)
          /\ ~check_game_over(games[game[p]].board, FALSE)
          /\ \A move \in AllMoves : ~EngineAccepts(p, move)
====
